---- MODULE Spec2Model ----
(***************************************************************************)
(* Diario-IA: the Netlify functions that analyse a poem (forza-analisi),   *)
(* synthesise the author's journal (aggiorna-journal) and re-run the       *)
(* synthesis in batch (rebuild-journal), over the Supabase tables poesie,  *)
(* profiles and diario_autore_history.                                     *)
(*                                                                         *)
(* Vocabulary of spec.md: Item = a row of poesie, group = the author,      *)
(* GroupState = the author's row of profiles, item-analysis =              *)
(* forza-analisi, group-synthesis = aggiorna-journal.                      *)
(*                                                                         *)
(* Every handler is a function of the store, the request body and the     *)
(* outcomes of its external calls (Supabase errors, OpenAI replies, QR     *)
(* rendering), which the actions draw from bounded sets.  Requests are     *)
(* POST requests with a body that parses.                                  *)
(*                                                                         *)
(* calls holds the invocations of forza-analisi of a series or in flight   *)
(* together, syns the invocations of aggiorna-journal in flight together;  *)
(* there a handler advances from one await to the next.                    *)
(***************************************************************************)
EXTENDS Integers, Sequences, FiniteSets, TLC

VARIABLES poems, profiles, history, now, cfg, last, run, calls, syns

vars == <<poems, profiles, history, now, cfg, last, run, calls, syns>>

(***************************************************************************)
(* Bounds                                                                  *)
(***************************************************************************)
\* poem identifiers of the detailed specifications
MaxPoems == 2
\* poem identifiers of the threshold specification, as a multiple of the
\* largest threshold
EdgeMultiples == 2
\* MIN_POEMS_TO_UPDATE ranges over 1..MaxThreshold
MaxThreshold == 3
\* the wall clock ranges over 0..MaxClock
MaxClock == 1
\* rows of diario_autore_history
MaxHistory == 2
\* the values of BACKFILL_CONCURRENCY are 0..MaxWorkers
MaxWorkers == 2
\* the values of BACKFILL_COOLDOWN_HOURS are 0..MaxCooldown
MaxCooldown == 1
\* a rebuild-journal scenario lasts at most this many half hours
MaxHalfHours == 2
\* forza-analisi invocations of a series
MaxCalls == 3
\* invocations of one handler in flight together
MaxRacers == 2
\* a triggerJournal of rebuild-journal takes 0..MaxElapsed milliseconds
MaxElapsed == 2
\* a chain of requests is followed to this depth
MaxDepth == 4

Authors == {"a1", "a2"}
PoemIds == 1..MaxPoems
EdgePoemIds == 1..(EdgeMultiples * MaxThreshold)
Thresholds == 1..MaxThreshold
Tasks == {1, 2, 3}

\* a request field that is absent or empty (falsy in JavaScript)
Missing == ""
\* an absent poem_id
MissingId == 0
\* a column that holds SQL NULL / a JavaScript null
Null == "null"
NoTime == 0 - 1

(***************************************************************************)
(* Journals.  A journal value is its provenance and the set of top-level   *)
(* keys it carries; a string (the text variant) carries none.              *)
(***************************************************************************)
KD == "descrizione_autore"
KP == "profilo_poetico"
KU == "ultimo_aggiornamento_iso"
KO == "ultime_opere_rilevanti"

NullJournal == [kind |-> "null", keys |-> {}]

\* the schema the prompt of each handler asks for
SchemaKeys(variant) ==
    IF variant = "v2" THEN {KD, KP, KO} ELSE {KD, KP, KU}

\* a journal satisfies the schema of the handler that wrote it
WellFormed(j, variant) ==
    /\ j.kind # "null"
    /\ j.kind # "string"
    /\ SchemaKeys(variant) \subseteq j.keys

\* JavaScript truthiness of a journal value
Truthy(j) == j.kind # "null" /\ j.kind # "emptystring"

(***************************************************************************)
(* The replies of the OpenAI completion: the call throws (error, timeout)  *)
(* or returns a message content.                                           *)
(***************************************************************************)
Replies == {"fail", "nocontent", "notjson", "jsonnull", "emptyobj", "othershape", "good"}

\* JSON.parse of a content, for the schema of `variant`: "throw" when it is
\* not JSON
JsonParse(content, variant) ==
    CASE content = "jsonnull"   -> NullJournal
      [] content = "emptyobj"   -> [kind |-> "provider", keys |-> {}]
      [] content = "othershape" -> [kind |-> "provider", keys |-> {"altro"}]
      [] content = "good"       -> [kind |-> "provider", keys |-> SchemaKeys(variant)]
      [] OTHER                  -> [kind |-> "throw", keys |-> {}]

(***************************************************************************)
(* The store: poesie is a set of rows, profiles a row per author,          *)
(* diario_autore_history a sequence of rows.                               *)
(***************************************************************************)
NoAnalyses == [t \in Tasks |-> Null]

\* a row of poesie; created_at is 0 for a row stored before the first request
PoemRow(id, author, titolo, testo, an) ==
    [id |-> id, author |-> author, titolo |-> titolo, testo |-> testo, an |-> an,
     created_at |-> 0]

EmptyProfile ==
    [poetic_journal |-> NullJournal, last_updated |-> NoTime,
     diario_autore |-> NullJournal, diario_updated_at |-> NoTime,
     qr_code_url |-> FALSE]

Store(ps, pr, hi) == [poems |-> ps, profiles |-> pr, history |-> hi]

\* a plain insert, which keeps the row the id already has
InsertPoemMinimal(ps, poemId, authorId, title, text) ==
    ps \cup {PoemRow(poemId, authorId, title, text, NoAnalyses)}

\* select count where author column = authorId
CountRows(ps, authorId) == Cardinality({r \in ps : r.author = authorId})

\* upsert with onConflict 'id': the payload's columns replace those of the
\* row with that id, its other columns are kept; without such a row one is
\* inserted
UpsertPoemMinimal(ps, poemId, authorId, title, text) ==
    LET old == {r \in ps : r.id = poemId}
        an  == IF old = {} THEN NoAnalyses ELSE (CHOOSE r \in old : TRUE).an
        at  == IF old = {} THEN now ELSE (CHOOSE r \in old : TRUE).created_at
    IN  (ps \ old) \cup {[PoemRow(poemId, authorId, title, text, an) EXCEPT !.created_at = at]}

\* update ... where id = poemId
UpdatePoemAnalyses(ps, poemId, an) ==
    {IF r.id = poemId THEN [r EXCEPT !.an = an] ELSE r : r \in ps}

(***************************************************************************)
(* aggiorna-journal, the handler with history (variant "a")                *)
(***************************************************************************)
\* safeJson of a completion's content
SafeJson(content, variant) ==
    IF content = "nocontent"
    THEN NullJournal
    ELSE LET p == JsonParse(content, variant)
         IN  IF p.kind = "throw" THEN NullJournal ELSE p

\* safeJson(prof.poetic_journal) ?? prof.poetic_journal ?? null
PreviousOf(stored) ==
    IF stored.kind \in {"string", "emptystring"}
    THEN stored
    ELSE IF Truthy(stored) THEN stored ELSE NullJournal

\* no fallback at all
NoFallbackJournal(variant) == NullJournal

FallbackJournal(variant) == [kind |-> "fallback", keys |-> SchemaKeys(variant)]

\* the trace of one aggiorna-journal invocation: its response and what it did
\* (count is -1 when no count was read, dry says the dry-run return was taken)
JTrace(variant, body, env, status, triggered, dry, count, provCalls, prev, journal, qr, wrote, hist) ==
    [variant |-> variant, body |-> body, env |-> env, status |-> status,
     triggered |-> triggered, dry |-> dry, count |-> count,
     provCalls |-> provCalls, prev |-> prev, journal |-> journal,
     qrGenerated |-> qr, wrote |-> wrote, hist |-> hist, corpus |-> <<>>]

JournalBody(authorId, dryRun) == [author_id |-> authorId, dry_run |-> dryRun]

JEnv(countErr, poemsErr, profRead, reply, qrOk, updErr, histErr) ==
    [countErr |-> countErr, poemsErr |-> poemsErr, profRead |-> profRead, reply |-> reply,
     qrOk |-> qrOk, updErr |-> updErr, histErr |-> histErr]

JEnvOk == JEnv(FALSE, FALSE, "ok", "good", TRUE, FALSE, FALSE)

NoJTrace ==
    JTrace("none", JournalBody(Missing, FALSE), JEnvOk, 0, FALSE, FALSE, 0 - 1, 0,
           NullJournal, NullJournal, FALSE, FALSE, FALSE)

\* a response that wrote nothing
JReply(st, variant, body, env, status, triggered, dry, count, provCalls, prev, journal) ==
    [st |-> st,
     tr |-> JTrace(variant, body, env, status, triggered, dry, count, provCalls, prev, journal,
                   FALSE, FALSE, FALSE)]

\* the threshold test off by one
BelowThresholdLoose(poemsCount, conf) == poemsCount + 1 < conf.threshold

\* (poemsCount ?? 0) < MIN_POEMS
BelowThreshold(poemsCount, conf) == poemsCount < conf.threshold

\* a render that yields a data URL even when QRCode.toDataURL fails
MaybeGenerateQrAlways(hasUrl, qrOk) == hasUrl

\* maybeGenerateQrDataUrl: whether a data URL came back; none without a
\* public URL, none when QRCode.toDataURL throws
MaybeGenerateQrDataUrl(hasUrl, qrOk) == hasUrl /\ qrOk

\* an insert that lands although Supabase reported an error
InsertHistoryAnyway(hi, entry, histErr) == Append(hi, entry)

\* insert into diario_autore_history; its error is only logged
InsertHistory(hi, entry, histErr) == IF histErr THEN hi ELSE Append(hi, entry)

\* an update that leaves a stored journal in place
UpdateIfNull(pr, authorId, row) ==
    IF pr[authorId].poetic_journal = NullJournal THEN [pr EXCEPT ![authorId] = row] ELSE pr

\* from('profiles').update(payload).eq('id', authorId)
UpdateWhereId(pr, authorId, row) == [pr EXCEPT ![authorId] = row]

\* steps 5 to 8: OpenAI, fallback, QR, update of profiles, insert of history
JournalAWrite(st, body, poemsCount, previous, existingQr, hasQrColumn, env, clock, conf) ==
    LET authorId == body.author_id
        parsed  == IF env.reply = "fail" THEN NullJournal ELSE SafeJson(env.reply, "a")
        diario  == IF Truthy(parsed) THEN parsed ELSE FallbackJournal("a")
        qrToSave == /\ hasQrColumn /\ conf.publicBase /\ ~existingQr
                    /\ MaybeGenerateQrDataUrl(conf.publicBase, env.qrOk)
        old     == st.profiles[authorId]
        row     == [old EXCEPT !.poetic_journal = diario,
                               !.last_updated = clock,
                               !.qr_code_url = IF qrToSave THEN TRUE ELSE @]
        written == [st EXCEPT !.profiles = UpdateWhereId(@, authorId, row)]
        entry   == [author_id |-> authorId, contenuto |-> diario,
                    source |-> "netlify/aggiorna-journal"]
    IN  IF env.updErr
        THEN JReply(st, "a", body, env, 500, FALSE, FALSE, poemsCount, 1, previous, NullJournal)
        ELSE [st |-> [written EXCEPT !.history = InsertHistory(@, entry, env.histErr)],
              tr |-> JTrace("a", body, env, 200, TRUE, FALSE, poemsCount, 1, previous, diario,
                            qrToSave, TRUE, ~env.histErr)]

AggiornaJournalA(st, body, env, clock, conf) ==
    LET authorId   == body.author_id
        poemsCount == CountRows(st.poems, authorId)
        readOk     == env.profRead = "ok"
        previous   == IF readOk THEN PreviousOf(st.profiles[authorId].poetic_journal)
                      ELSE NullJournal
        existingQr == IF readOk THEN st.profiles[authorId].qr_code_url ELSE FALSE
        hasQrColumn == env.profRead # "noqrcol"
    IN  CASE authorId = Missing ->
               JReply(st, "a", body, env, 400, FALSE, FALSE, 0 - 1, 0, NullJournal, NullJournal)
          [] authorId # Missing /\ env.countErr ->
               JReply(st, "a", body, env, 500, FALSE, FALSE, 0 - 1, 0, NullJournal, NullJournal)
          [] authorId # Missing /\ ~env.countErr /\ BelowThreshold(poemsCount, conf) ->
               JReply(st, "a", body, env, 200, FALSE, FALSE, poemsCount, 0, NullJournal, NullJournal)
          [] OTHER ->
               IF env.poemsErr
               THEN JReply(st, "a", body, env, 500, FALSE, FALSE, poemsCount, 0, NullJournal, NullJournal)
               ELSE IF {r \in st.poems : r.author = authorId} = {}
               THEN JReply(st, "a", body, env, 404, FALSE, FALSE, poemsCount, 0, NullJournal, NullJournal)
               ELSE IF body.dry_run
               THEN JReply(st, "a", body, env, 200, FALSE, TRUE, poemsCount, 0, previous, NullJournal)
               ELSE JournalAWrite(st, body, poemsCount, previous, existingQr, hasQrColumn,
                                  env, clock, conf)

(***************************************************************************)
(* aggiorna-journal, the handler that keeps the journal in diario_autore   *)
(* and has no history (variant "b")                                        *)
(***************************************************************************)
\* steps 5 to 7: OpenAI, fallback, QR, update of profiles
JournalBWrite(st, body, poemsCount, previous, existingQr, hasQrColumn, env, clock, conf) ==
    LET authorId == body.author_id
        parsed  == IF env.reply = "fail" THEN NullJournal ELSE SafeJson(env.reply, "b")
        diario  == IF Truthy(parsed) THEN parsed ELSE FallbackJournal("b")
        qrToSave == /\ hasQrColumn /\ conf.publicBase /\ ~existingQr
                    /\ MaybeGenerateQrDataUrl(conf.publicBase, env.qrOk)
        row     == [st.profiles[authorId] EXCEPT !.diario_autore = diario,
                                                 !.diario_updated_at = clock,
                                                 !.qr_code_url = IF qrToSave THEN TRUE ELSE @]
    IN  IF env.updErr
        THEN JReply(st, "b", body, env, 500, FALSE, FALSE, poemsCount, 1, previous, NullJournal)
        ELSE [st |-> [st EXCEPT !.profiles[authorId] = row],
              tr |-> JTrace("b", body, env, 200, TRUE, FALSE, poemsCount, 1, previous, diario,
                            qrToSave, TRUE, FALSE)]

AggiornaJournalB(st, body, env, clock, conf) ==
    LET authorId   == body.author_id
        poemsCount == CountRows(st.poems, authorId)
        readOk     == env.profRead = "ok"
        previous   == IF readOk THEN PreviousOf(st.profiles[authorId].diario_autore)
                      ELSE NullJournal
        existingQr == IF readOk THEN st.profiles[authorId].qr_code_url ELSE FALSE
        hasQrColumn == env.profRead # "noqrcol"
    IN  CASE authorId = Missing ->
               JReply(st, "b", body, env, 400, FALSE, FALSE, 0 - 1, 0, NullJournal, NullJournal)
          [] authorId # Missing /\ env.countErr ->
               JReply(st, "b", body, env, 500, FALSE, FALSE, 0 - 1, 0, NullJournal, NullJournal)
          [] authorId # Missing /\ ~env.countErr /\ BelowThreshold(poemsCount, conf) ->
               JReply(st, "b", body, env, 200, FALSE, FALSE, poemsCount, 0, NullJournal, NullJournal)
          [] OTHER ->
               IF env.poemsErr
               THEN JReply(st, "b", body, env, 500, FALSE, FALSE, poemsCount, 0, NullJournal, NullJournal)
               ELSE IF {r \in st.poems : r.author = authorId} = {}
               THEN JReply(st, "b", body, env, 404, FALSE, FALSE, poemsCount, 0, NullJournal, NullJournal)
               ELSE IF body.dry_run
               THEN JReply(st, "b", body, env, 200, FALSE, TRUE, poemsCount, 0, previous, NullJournal)
               ELSE JournalBWrite(st, body, poemsCount, previous, existingQr, hasQrColumn,
                                  env, clock, conf)

(***************************************************************************)
(* aggiorna-journal, the handler that stores the completion's text         *)
(* (variant "text")                                                        *)
(***************************************************************************)
\* gptResponse.choices[0]?.message?.content || ''
TextOf(content) ==
    IF content = "nocontent"
    THEN [kind |-> "emptystring", keys |-> {}]
    ELSE [kind |-> "string", keys |-> {}]

\* profile?.poetic_journal || ''
PreviousText(stored) ==
    IF Truthy(stored) THEN stored ELSE [kind |-> "emptystring", keys |-> {}]

AggiornaJournalText(st, body, env, clock, conf) ==
    LET authorId   == body.author_id
        poemsCount == CountRows(st.poems, authorId)
        previous   == PreviousText(st.profiles[authorId].poetic_journal)
        newJournal == TextOf(env.reply)
        row        == [st.profiles[authorId] EXCEPT !.poetic_journal = newJournal,
                                                    !.last_updated = clock]
    IN  CASE authorId = Missing ->
               JReply(st, "text", body, env, 400, FALSE, FALSE, 0 - 1, 0, NullJournal, NullJournal)
          [] authorId # Missing /\ env.poemsErr ->
               JReply(st, "text", body, env, 500, FALSE, FALSE, 0 - 1, 0, NullJournal, NullJournal)
          [] authorId # Missing /\ ~env.poemsErr /\ BelowThreshold(poemsCount, conf) ->
               JReply(st, "text", body, env, 200, FALSE, FALSE, poemsCount, 0, NullJournal, NullJournal)
          [] OTHER ->
               IF env.profRead # "ok"
               THEN JReply(st, "text", body, env, 500, FALSE, FALSE, poemsCount, 0, NullJournal, NullJournal)
               ELSE IF env.reply = "fail"
               THEN JReply(st, "text", body, env, 500, FALSE, FALSE, poemsCount, 1, previous, NullJournal)
               ELSE IF body.dry_run
               THEN JReply(st, "text", body, env, 200, TRUE, TRUE, poemsCount, 1, previous, newJournal)
               ELSE IF env.updErr
               THEN JReply(st, "text", body, env, 500, FALSE, FALSE, poemsCount, 1, previous, NullJournal)
               ELSE [st |-> [st EXCEPT !.profiles[authorId] = row],
                     tr |-> JTrace("text", body, env, 200, TRUE, FALSE, poemsCount, 1, previous,
                                   newJournal, FALSE, TRUE, FALSE)]

(***************************************************************************)
(* aggiorna-journal, the handler of aggiorna-journal/index.ts that calls   *)
(* OpenAI itself (variant "v2")                                            *)
(***************************************************************************)
\* callOpenAIForJournal: JSON.parse of the trimmed content, and the text
\* wrapped as descrizione_autore when it does not parse
CallOpenAIForJournal(content) ==
    LET p == JsonParse(IF content = "nocontent" THEN "notjson" ELSE content, "v2")
    IN  IF p.kind = "throw" THEN [kind |-> "wrapped", keys |-> {KD}] ELSE p

\* profile?.poetic_journal || null
PrevJournal(stored) == IF Truthy(stored) THEN stored ELSE NullJournal

AggiornaJournalV2(st, body, env, clock, conf) ==
    LET authorId   == body.author_id
        poemsCount == CountRows(st.poems, authorId)
        profile    == st.profiles[authorId]
        previous   == PrevJournal(profile.poetic_journal)
        newJournal == IF env.reply = "fail" THEN FallbackJournal("v2")
                      ELSE CallOpenAIForJournal(env.reply)
        qrDataUrl  == conf.publicBase /\ ~profile.qr_code_url /\ env.qrOk
        row        == [profile EXCEPT !.poetic_journal = newJournal,
                                      !.last_updated = clock,
                                      !.qr_code_url = IF qrDataUrl THEN TRUE ELSE @]
    IN  CASE authorId = Missing ->
               JReply(st, "v2", body, env, 400, FALSE, FALSE, 0 - 1, 0, NullJournal, NullJournal)
          [] authorId # Missing /\ env.countErr ->
               JReply(st, "v2", body, env, 500, FALSE, FALSE, 0 - 1, 0, NullJournal, NullJournal)
          [] authorId # Missing /\ ~env.countErr /\ BelowThreshold(poemsCount, conf) ->
               JReply(st, "v2", body, env, 200, FALSE, FALSE, poemsCount, 0, NullJournal, NullJournal)
          [] OTHER ->
               IF env.poemsErr \/ env.profRead # "ok"
               THEN JReply(st, "v2", body, env, 500, FALSE, FALSE, poemsCount, 0, NullJournal, NullJournal)
               ELSE IF body.dry_run
               THEN JReply(st, "v2", body, env, 200, TRUE, TRUE, poemsCount, 0, previous, NullJournal)
               ELSE IF env.updErr
               THEN JReply(st, "v2", body, env, 500, FALSE, FALSE, poemsCount, 1, previous, NullJournal)
               ELSE [st |-> [st EXCEPT !.profiles[authorId] = row],
                     tr |-> JTrace("v2", body, env, 200, TRUE, FALSE, poemsCount, 1, previous,
                                   newJournal, qrDataUrl, TRUE, FALSE)]

\* the function deployed at /.netlify/functions/aggiorna-journal
Variants == {"a", "text", "v2"}

\* the column a handler orders the author's poems by
OrderColumn(variant) == IF variant \in {"a", "b"} THEN "id" ELSE "created_at"

KeyOf(r, col) == IF col = "id" THEN r.id ELSE r.created_at

\* select ... order(col, ascending); rows with the same key come in an order
\* the database does not fix, here by id
RECURSIVE OrderBy(_, _)
OrderBy(rows, col) ==
    IF rows = {}
    THEN <<>>
    ELSE LET m == CHOOSE r \in rows :
                     \A q \in rows :
                        \/ KeyOf(r, col) < KeyOf(q, col)
                        \/ KeyOf(r, col) = KeyOf(q, col) /\ r.id <= q.id
         IN  <<m>> \o OrderBy(rows \ {m}, col)

\* the corpus of a synthesis: the author's poems, one block for each, in
\* the order of the select (a poem stands for its block)
Corpus(variant, ps, authorId) ==
    LET sorted == OrderBy({r \in ps : r.author = authorId}, OrderColumn(variant))
    IN  [i \in DOMAIN sorted |-> sorted[i].id]

AggiornaJournal(st, body, env, clock, conf) ==
    LET res == CASE conf.journalFn = "a"    -> AggiornaJournalA(st, body, env, clock, conf)
                 [] conf.journalFn = "text" -> AggiornaJournalText(st, body, env, clock, conf)
                 [] conf.journalFn = "v2"   -> AggiornaJournalV2(st, body, env, clock, conf)
                 [] conf.journalFn = "b"    -> AggiornaJournalB(st, body, env, clock, conf)
    IN  IF res.tr.provCalls > 0
        THEN [res EXCEPT !.tr.corpus = Corpus(conf.journalFn, st.poems, body.author_id)]
        ELSE res

\* the columns of profiles in which a handler keeps the journal and its time
JournalOf(row, variant) ==
    IF variant = "b" THEN row.diario_autore ELSE row.poetic_journal

UpdatedAtOf(row, variant) ==
    IF variant = "b" THEN row.diario_updated_at ELSE row.last_updated

(***************************************************************************)
(* forza-analisi, the handler that upserts the poem, runs the three       *)
(* analyses and cascades into aggiorna-journal                             *)
(***************************************************************************)
\* what one chat completion does: it rejects, it is still pending after 45
\* seconds, or it resolves with no content, with text that is not JSON, with
\* {} or with an analysis
TaskReplies == {"fail", "slow", "nocontent", "notjson", "emptyobj", "content"}

\* the retries askGPT passes to withRetry
Retries == 1

\* withTimeout(p, 45000): the timer rejects first when p is still pending
WithTimeout(reply) == IF reply = "slow" THEN "fail" ELSE reply

\* withRetry(fn, retries) from the i-th call of fn: how many calls were made
\* and what each did, how many of them failed, the delay put between them,
\* and what came back
RECURSIVE RetryFrom(_, _, _)
RetryFrom(attempts, i, retries) ==
    LET out == WithTimeout(attempts[i])
    IN  IF out # "fail"
        THEN [n |-> i, calls |-> SubSeq(attempts, 1, i), fails |-> i - 1, waited |-> 0,
              threw |-> FALSE, content |-> out]
        ELSE IF retries <= 0
        THEN [n |-> i, calls |-> SubSeq(attempts, 1, i), fails |-> i, waited |-> 0,
              threw |-> TRUE, content |-> "fail"]
        ELSE RetryFrom(attempts, i + 1, retries - 1)

\* a retry more than askGPT asks for
WithRetryTwice(attempts) == RetryFrom(attempts, 1, Retries + 1)

\* withRetry(fn, 1) over withTimeout
WithRetry(attempts) == RetryFrom(attempts, 1, Retries)

\* askGPT: content || '{}', JSON.parse, {} when it does not parse; the
\* rejection of withRetry is not caught
AskGPT(attempts) ==
    LET res == WithRetry(attempts)
    IN  [n |-> res.n, calls |-> res.calls, fails |-> res.fails, waited |-> res.waited,
         result |-> IF res.threw THEN "throw"
                    ELSE IF res.content = "content" THEN "content" ELSE "empty"]

\* hasKeys
HasKeys(o) == o = "content"

\* the trace of one forza-analisi invocation
\* (upsert is "none", "inserted" or "updated"; fetch is "none", "threw" or
\* "answered"; count is -1 when no count was read; upsertErr says that the
\* upsert was made and returned an error)
ITrace(body, status, upsert, asked, written, count, countErr, dispatched, fetch, triggered) ==
    [body |-> body, status |-> status, upsert |-> upsert,
     asked |-> asked, written |-> written, count |-> count, countErr |-> countErr,
     dispatched |-> dispatched, fetch |-> fetch, triggered |-> triggered,
     upsertErr |-> FALSE]

ItemBody(authorId, poemId, title, content) ==
    [author_id |-> authorId, poem_id |-> poemId, title |-> title, content |-> content]

NotAsked ==
    [t \in Tasks |-> [n |-> 0, calls |-> <<>>, fails |-> 0, waited |-> 0, result |-> "none"]]

NoITrace ==
    ITrace(ItemBody(Missing, MissingId, Missing, Missing), 0, "none", NotAsked, FALSE, 0 - 1,
           FALSE, FALSE, "none", FALSE)

\* a validation that forgets the text
RejectsIdsOnly(body) ==
    body.author_id = Missing \/ body.poem_id = MissingId

\* the three checks that answer 400
Rejects(body) ==
    body.author_id = Missing \/ body.poem_id = MissingId \/ body.content = Missing

\* an error of the upsert that is logged and passed over
UpsertErrorLogged(upsertErr) == FALSE

\* if (upsertRes.error) return 500
UpsertFatal(upsertErr) == upsertErr

\* a count error that ends the request
CountErrorFatal(countErr) == countErr

\* if (countErr) console.warn(...): the handler goes on
CountFatal(countErr) == FALSE

\* the trigger without the modulo test
ShouldTriggerAtLeast(countErr, poemsCount, threshold) ==
    ~countErr /\ poemsCount >= threshold

\* the cascade rule of step 5
ShouldTrigger(countErr, poemsCount, threshold) ==
    /\ ~countErr
    /\ poemsCount >= threshold
    /\ poemsCount % threshold = 0

\* the handler up to the cascade decision; dispatch says whether the fetch
\* of aggiorna-journal is issued
ForzaAnalisiPre(st, body, env, conf) ==
    LET authorId == body.author_id
        poemId   == body.poem_id
        how      == IF \E r \in st.poems : r.id = poemId THEN "updated" ELSE "inserted"
        upserted == [st EXCEPT !.poems =
                        UpsertPoemMinimal(@, poemId, authorId, body.title, body.content)]
        asked    == [t \in Tasks |-> AskGPT(env.tasks[t])]
        rejected == \E t \in Tasks : asked[t].result = "throw"
        analysed == [upserted EXCEPT !.poems =
                        UpdatePoemAnalyses(@, poemId, [t \in Tasks |-> asked[t].result])]
        poemsCount == IF env.countErr THEN 0 ELSE CountRows(analysed.poems, authorId)
        fire     == ShouldTrigger(env.countErr, poemsCount, conf.threshold)
        failed(tr) == [tr EXCEPT !.upsertErr = env.upsertErr]
    IN  IF Rejects(body)
        THEN [st |-> st, dispatch |-> FALSE,
              tr |-> ITrace(body, 400, "none", NotAsked, FALSE, 0 - 1, FALSE, FALSE, "none", FALSE)]
        ELSE IF UpsertFatal(env.upsertErr)
        THEN [st |-> st, dispatch |-> FALSE,
              tr |-> failed(ITrace(body, 500, "none", NotAsked, FALSE, 0 - 1, FALSE, FALSE,
                                   "none", FALSE))]
        ELSE IF rejected
        THEN [st |-> upserted, dispatch |-> FALSE,
              tr |-> failed(ITrace(body, 500, how, asked, FALSE, 0 - 1, FALSE, FALSE,
                                   "none", FALSE))]
        ELSE IF env.updateErr
        THEN [st |-> upserted, dispatch |-> FALSE,
              tr |-> failed(ITrace(body, 500, how, asked, FALSE, 0 - 1, FALSE, FALSE,
                                   "none", FALSE))]
        ELSE IF CountFatal(env.countErr)
        THEN [st |-> analysed, dispatch |-> FALSE,
              tr |-> failed(ITrace(body, 500, how, asked, TRUE, 0 - 1, env.countErr, FALSE,
                                   "none", FALSE))]
        ELSE [st |-> analysed, dispatch |-> fire,
              tr |-> failed(ITrace(body, 200, how, asked, TRUE, poemsCount, env.countErr, fire,
                                   "none", FALSE))]

\* the body forza-analisi posts to aggiorna-journal
CascadeBody(authorId) == JournalBody(authorId, FALSE)

\* the fetch of aggiorna-journal and the response: a fetch that throws is
\* caught by the handler's outer catch; any response, whatever its status,
\* sets triggered
ForzaAnalisiCascade(pre, cascade, clock, conf) ==
    IF cascade.throws
    THEN [st |-> pre.st, casc |-> NoJTrace,
          tr |-> [pre.tr EXCEPT !.status = 500, !.fetch = "threw"]]
    ELSE LET j == AggiornaJournal(pre.st, CascadeBody(pre.tr.body.author_id), cascade.env,
                                  clock, conf)
         IN  [st |-> j.st, casc |-> j.tr,
              tr |-> [pre.tr EXCEPT !.fetch = "answered", !.triggered = TRUE]]

\* the journal of a response made without an answer of aggiorna-journal
NoAnswer == [status |-> 0, triggered |-> FALSE, diario |-> NullJournal]

\* the response of forza-analisi: the status, and in a 200 the count,
\* journal_triggered, and as journal the body aggiorna-journal answered
ItemResponse(tr, casc) ==
    [statusCode |-> tr.status,
     poemsCount |-> IF tr.status = 200 THEN tr.count ELSE 0 - 1,
     journal_triggered |-> tr.status = 200 /\ tr.triggered,
     journal |-> IF tr.status = 200 /\ tr.fetch = "answered"
                 THEN [status |-> casc.status, triggered |-> casc.triggered,
                       diario |-> casc.journal]
                 ELSE NoAnswer]

(***************************************************************************)
(* Outcomes of the external calls, and the requests                        *)
(***************************************************************************)
\* what the first, second and third call of a task's completion would do
AllContent == [t \in Tasks |-> <<"content", "content", "content">>]

\* the first task alone departing from success, or every task failing twice
\* or returning text that is not JSON
TaskScenarios ==
    {[AllContent EXCEPT ![1] = p] :
        p \in {<<"content", "content", "content">>, <<"emptyobj", "content", "content">>,
               <<"fail", "content", "content">>, <<"slow", "content", "content">>,
               <<"fail", "notjson", "content">>, <<"fail", "fail", "content">>,
               <<"slow", "slow", "content">>}}
      \cup {[t \in Tasks |-> <<"fail", "fail", "content">>],
            [t \in Tasks |-> <<"notjson", "content", "content">>]}

IEnv(upsertErr, tasks, updateErr, countErr) ==
    [upsertErr |-> upsertErr, tasks |-> tasks, updateErr |-> updateErr, countErr |-> countErr]

IEnvOk == IEnv(FALSE, AllContent, FALSE, FALSE)

\* at most one Supabase fault per forza-analisi invocation
ItemEnvs ==
    {IEnv(FALSE, s, FALSE, FALSE) : s \in TaskScenarios}
      \cup {IEnv(TRUE, AllContent, FALSE, FALSE),
            IEnv(FALSE, AllContent, TRUE, FALSE),
            IEnv(FALSE, AllContent, FALSE, TRUE)}

\* any reply with any QR outcome, or one fault among the count, the select
\* of the poems, the read of the profile, the update and the history insert
JournalEnvs ==
    {[JEnvOk EXCEPT !.reply = r, !.qrOk = q] : r \in Replies, q \in BOOLEAN}
      \cup {[JEnvOk EXCEPT !.profRead = p] : p \in {"err", "noqrcol"}}
      \cup {[JEnvOk EXCEPT !.countErr = TRUE], [JEnvOk EXCEPT !.poemsErr = TRUE],
            [JEnvOk EXCEPT !.updErr = TRUE], [JEnvOk EXCEPT !.histErr = TRUE],
            [JEnvOk EXCEPT !.reply = "fail", !.updErr = TRUE],
            [JEnvOk EXCEPT !.reply = "fail", !.histErr = TRUE]}

\* the outcomes of a cascaded aggiorna-journal: the fetch throws, or the
\* handler runs
\* (ms is the time the fetch and the parse of the answer take, which only
\* rebuild-journal measures)
Cascade(throws, env) == [throws |-> throws, env |-> env, ms |-> 0]

\* an outcome that takes ms milliseconds
Timed(cascade, ms) == [cascade EXCEPT !.ms = ms]

Cascades ==
    {Cascade(TRUE, JEnvOk), Cascade(FALSE, JEnvOk),
     Cascade(FALSE, [JEnvOk EXCEPT !.reply = "fail"]),
     Cascade(FALSE, [JEnvOk EXCEPT !.updErr = TRUE]),
     Cascade(FALSE, [JEnvOk EXCEPT !.countErr = TRUE])}

\* title and text of a request; Missing is an absent or empty field
ItemFields == {<<"T", "x">>, <<Missing, "y">>}

\* requests with every field, and requests that lack one
ItemBodies(authors, ids) ==
    {ItemBody(a, p, f[1], f[2]) : a \in authors, p \in ids, f \in ItemFields}
      \cup {ItemBody(Missing, 1, "T", "x"), ItemBody("a1", MissingId, "T", "x"),
            ItemBody("a1", 1, "T", Missing)}

(***************************************************************************)
(* rebuild-journal: discovery, cooldown filter, and the pool of workers    *)
(* that share one queue.  A worker runs without interruption between two   *)
(* awaits, so one step of a worker is the return of its triggerJournal,    *)
(* the push of the result, and the shift of the next author.               *)
(***************************************************************************)
Groups == <<"a1", "a2", "a3">>

GroupSet == {Groups[i] : i \in DOMAIN Groups}

\* a worker per author at most
Slots == DOMAIN Groups

Min(a, b) == IF a <= b THEN a ELSE b

HoursToMs(h) == h * 60 * 60 * 1000

HalfHour == HoursToMs(1) \div 2

\* a missing timestamp read as one of this instant
MsSinceOrNow(iso, clock) ==
    IF iso = NoTime THEN [inf |-> FALSE, ms |-> 0] ELSE [inf |-> FALSE, ms |-> clock - iso]

\* msSince: infinite for a missing timestamp
MsSince(iso, clock) ==
    IF iso = NoTime THEN [inf |-> TRUE, ms |-> 0] ELSE [inf |-> FALSE, ms |-> clock - iso]

\* msSince(updatedMap[id]) > cutoffMs
PastCooldown(since, cutoffMs) == since.inf \/ since.ms > cutoffMs

\* getAuthorsWithAtLeastNPoems: the authors with at least min poems
GetAuthorsWithAtLeastNPoems(ps, min) ==
    SelectSeq(Groups, LAMBDA a : CountRows(ps, a) >= min)

\* getProfilesDiaryUpdatedAt: diario_updated_at per author, and the empty
\* map when the select fails
GetProfilesDiaryUpdatedAt(pr, authors, env) ==
    [a \in GroupSet |-> IF env.mapErr \/ a \in env.noRow THEN NoTime
                                                             ELSE pr[a].diario_updated_at]

\* authors.filter((id) => force || msSince(updatedMap[id]) > cutoffMs)
ToProcess(authors, updatedMap, force, clock, conf) ==
    SelectSeq(authors, LAMBDA a :
        force \/ PastCooldown(MsSince(updatedMap[a], clock), HoursToMs(conf.cooldown)))

InSeq(x, sq) == \E i \in DOMAIN sq : sq[i] = x

\* authors.filter((id) => !toProcess.includes(id)), with the reason
Skipped(authors, toProcess, updatedMap) ==
    LET out == SelectSeq(authors, LAMBDA a : ~InSeq(a, toProcess))
    IN  [i \in DOMAIN out |->
            [author_id |-> out[i], reason |-> "cooldown", last_update |-> updatedMap[out[i]]]]

\* a worker for every eligible author, whatever CONCURRENCY says
WorkerCountAll(concurrency, eligible) == eligible

\* Math.min(CONCURRENCY, toProcess.length)
WorkerCount(concurrency, eligible) == Min(concurrency, eligible)

\* a read of the head of the queue that leaves it there
ShiftKeep(queue) == [id |-> Head(queue), rest |-> queue]

\* queue.shift()
Shift(queue) == [id |-> Head(queue), rest |-> Tail(queue)]

\* a worker that gives up after a failure
ContinuesUnlessThrew(queue, threw) == queue # <<>> /\ ~threw

\* while (queue.length), met again after the try and after the catch
Continues(queue, threw) == queue # <<>>

\* the request body of rebuild-journal
RebuildBody(authorId, force) == [author_id |-> authorId, force |-> force]

\* the outcomes of the two Supabase reads of a run
\* (noRow holds the authors for whom the select on profiles returns no row)
REnv(discErr, mapErr) == [discErr |-> discErr, mapErr |-> mapErr, noRow |-> {}]

\* a run of rebuild-journal: its request, what discovery and the filter
\* gave, the queue, the author each worker has in flight, the results, and
\* the response once it is made (status 0 before); reads are the Supabase
\* reads made, triggered the authors triggerJournal was called for, in order
Run(phase, body, env, authors, toProcess, skipped, queue, cur, results, status, ok) ==
    [phase |-> phase, body |-> body, env |-> env, authors |-> authors,
     toProcess |-> toProcess, skipped |-> skipped, queue |-> queue, cur |-> cur,
     results |-> results, status |-> status, ok |-> ok,
     reads |-> {}, triggered |-> <<>>,
     processed |-> 0, okCount |-> 0, avg_ms_per_author |-> 0]

NoneInFlight == [w \in Slots |-> Missing]

NoRun ==
    Run("idle", RebuildBody(Missing, FALSE), REnv(FALSE, FALSE), <<>>, <<>>, <<>>, <<>>,
        NoneInFlight, <<>>, 0, FALSE)

\* a response made before any worker started
RunDone(body, env, authors, toProcess, skipped, status, ok) ==
    Run("done", body, env, authors, toProcess, skipped, <<>>, NoneInFlight, <<>>, status, ok)

\* the authors in flight, in the order of the workers that took them
Taken(cur) ==
    LET busy == SelectSeq([w \in Slots |-> w], LAMBDA w : cur[w] # Missing)
    IN  [i \in DOMAIN busy |-> cur[busy[i]]]

\* a request that names an author is served for that author alone
SingleModeUnlessForce(body) == body.author_id # Missing /\ ~body.force

\* if (authorIdSingle)
SingleMode(body) == body.author_id # Missing

Discovery == "getAuthorsWithAtLeastNPoems"

Lookup == "getProfilesDiaryUpdatedAt"

\* Array.from({ length: n }, () => worker()): worker w runs up to its first
\* await, which shifts its first author, before worker w + 1 is created
RECURSIVE Spawn(_, _, _, _)
Spawn(queue, cur, w, n) ==
    IF w > n
    THEN [queue |-> queue, cur |-> cur]
    ELSE IF queue = <<>>
    THEN Spawn(queue, cur, w + 1, n)
    ELSE Spawn(Shift(queue).rest, [cur EXCEPT ![w] = Shift(queue).id], w + 1, n)

\* the handler up to Promise.all
RebuildStart(ps, pr, body, env, clock, conf) ==
    LET authors    == GetAuthorsWithAtLeastNPoems(ps, conf.threshold)
        updatedMap == GetProfilesDiaryUpdatedAt(pr, authors, env)
        toProcess  == ToProcess(authors, updatedMap, body.force, clock, conf)
        skipped    == Skipped(authors, toProcess, updatedMap)
        n          == WorkerCount(conf.concurrency, Len(toProcess))
        pool       == Spawn(toProcess, NoneInFlight, 1, n)
    IN  IF SingleMode(body)
        THEN [Run("single", body, env, <<>>, <<>>, <<>>, <<>>,
                  [NoneInFlight EXCEPT ![1] = body.author_id], <<>>, 0, FALSE)
                EXCEPT !.triggered = <<body.author_id>>]
        ELSE IF env.discErr
        THEN [RunDone(body, env, <<>>, <<>>, <<>>, 500, FALSE) EXCEPT !.reads = {Discovery}]
        ELSE IF authors = <<>>
        THEN [RunDone(body, env, authors, <<>>, <<>>, 200, TRUE) EXCEPT !.reads = {Discovery}]
        ELSE IF toProcess = <<>>
        THEN [RunDone(body, env, authors, toProcess, skipped, 200, TRUE)
                EXCEPT !.reads = {Discovery, Lookup}]
        ELSE [Run("running", body, env, authors, toProcess, skipped, pool.queue, pool.cur,
                  <<>>, 0, FALSE)
                EXCEPT !.reads = {Discovery, Lookup}, !.triggered = Taken(pool.cur)]

\* triggerJournal: the fetch throws, or aggiorna-journal runs and answers;
\* ms is Date.now() - started
TriggerJournal(st, authorId, cascade, clock, conf) ==
    IF cascade.throws
    THEN [st |-> st, threw |-> TRUE, status |-> 0, ms |-> cascade.ms]
    ELSE LET j == AggiornaJournal(st, JournalBody(authorId, FALSE), cascade.env, clock, conf)
         IN  [st |-> j.st, threw |-> FALSE, status |-> j.tr.status, ms |-> cascade.ms]

\* the ms of a result that has none
NoMs == 0 - 1

\* what a worker pushes: the answer of triggerJournal, or the caught error,
\* which carries no ms
ResultOf(authorId, t) ==
    [author_id |-> authorId, status |-> IF t.threw THEN 500 ELSE t.status, threw |-> t.threw,
     ms |-> IF t.threw THEN NoMs ELSE t.ms]

RECURSIVE TotalMs(_)
\* results.reduce((acc, r) => acc + (r.ms || 0), 0)
TotalMs(results) ==
    IF results = <<>>
    THEN 0
    ELSE (IF Head(results).ms = NoMs THEN 0 ELSE Head(results).ms) + TotalMs(Tail(results))

\* Math.round of num / den, for num >= 0 and den > 0
MathRound(num, den) == (2 * num + den) \div (2 * den)

\* results.length ? Math.round(totalMs / results.length) : 0
AvgMs(results) ==
    IF Len(results) # 0 THEN MathRound(TotalMs(results), Len(results)) ELSE 0

\* results.filter((r) => r.status === 200).length
OkCount(results) == Len(SelectSeq(results, LAMBDA r : r.status = 200))

\* a worker after the return of its triggerJournal
WorkerResume(r, w, t) ==
    LET pushed == [r EXCEPT !.results = Append(@, ResultOf(r.cur[w], t))]
    IN  IF Continues(r.queue, t.threw)
        THEN [pushed EXCEPT !.cur[w] = Shift(r.queue).id, !.queue = Shift(r.queue).rest,
                            !.triggered = Append(@, Shift(r.queue).id)]
        ELSE [pushed EXCEPT !.cur[w] = Missing]

\* the single-author request after the return of its triggerJournal
SingleResume(r, t) ==
    IF t.threw
    THEN [r EXCEPT !.phase = "done", !.cur = NoneInFlight, !.status = 500]
    ELSE [r EXCEPT !.phase = "done", !.cur = NoneInFlight, !.status = 200,
                   !.ok = (t.status = 200),
                   !.results = <<ResultOf(r.cur[1], t)>>]

\* workers that never settle
InFlightForever(r) == Slots

\* the workers whose promise is pending: those awaiting a triggerJournal
InFlight(r) == {w \in Slots : r.cur[w] # Missing}

(***************************************************************************)
(* State, actions, specifications                                          *)
(***************************************************************************)
Cur == Store(poems, profiles, history)

Last(op, itr, jtr) == [op |-> op, item |-> itr, journal |-> jtr]

Idle == Last("idle", NoITrace, NoJTrace)

\* a handler runs when no response is pending; it leaves its trace in last
Commit(st, op, itr, jtr) ==
    /\ last = Idle
    /\ Len(st.history) <= MaxHistory
    /\ poems' = st.poems
    /\ profiles' = st.profiles
    /\ history' = st.history
    /\ last' = Last(op, itr, jtr)
    /\ UNCHANGED <<now, cfg, run, syns>>

\* MIN_POEMS_TO_UPDATE, whether PUBLIC_BASE_URL is set, the deployed
\* aggiorna-journal
Conf(threshold, publicBase, journalFn) ==
    [threshold |-> threshold, publicBase |-> publicBase, journalFn |-> journalFn]

InitWith(seeds, confs) ==
    /\ poems \in seeds
    /\ profiles = [a \in Authors |-> EmptyProfile]
    /\ history = <<>>
    /\ now = 0
    /\ cfg \in confs
    /\ last = Idle
    /\ run = NoRun
    /\ calls = <<>>
    /\ syns = <<>>

\* one invocation of forza-analisi from the request to the response, the
\* cascaded aggiorna-journal included
ForzaAnalisiServe(bodies, envs, cascades) ==
    \E body \in bodies :
      \E env \in IF Rejects(body) THEN {IEnvOk} ELSE envs :
        LET pre == ForzaAnalisiPre(Cur, body, env, cfg)
        IN  IF pre.dispatch
            THEN \E c \in cascades :
                    LET res == ForzaAnalisiCascade(pre, c, now, cfg)
                    IN  Commit(res.st, "item", res.tr, res.casc)
            ELSE Commit(pre.st, "item", pre.tr, NoJTrace)

\* an invocation of forza-analisi, by where it stands and what it did so far
Call(pc, tr) == [pc |-> pc, tr |-> tr]

\* one request to forza-analisi
ForzaAnalisiReq(bodies, envs, cascades) ==
    /\ ForzaAnalisiServe(bodies, envs, cascades)
    /\ UNCHANGED calls

\* one request to forza-analisi of a series, which keeps what each invocation did
ForzaAnalisiLogged(bodies, envs, cascades) ==
    /\ Len(calls) < MaxCalls
    /\ ForzaAnalisiServe(bodies, envs, cascades)
    /\ calls' = Append(calls, Call("done", last'.item))

\* one request to aggiorna-journal
AggiornaJournalReq(bodies, envs) ==
    \E body \in bodies :
      \E env \in IF body.author_id = Missing THEN {JEnvOk} ELSE envs :
        LET res == AggiornaJournal(Cur, body, env, now, cfg)
        IN  /\ Commit(res.st, "journal", NoITrace, res.tr)
            /\ UNCHANGED calls

\* the response is delivered and the invocation ends
Respond ==
    /\ last # Idle
    /\ last' = Idle
    /\ UNCHANGED <<poems, profiles, history, now, cfg, run, calls, syns>>

\* the wall clock advances
Tick ==
    /\ last = Idle
    /\ now < MaxClock
    /\ now' = now + 1
    /\ UNCHANGED <<poems, profiles, history, cfg, last, run, calls, syns>>

(***************************************************************************)
(* Spec: forza-analisi for one author and one text, with every outcome of  *)
(* the analyses and of the Supabase calls                                  *)
(***************************************************************************)
CascadesBasic ==
    {Cascade(TRUE, JEnvOk), Cascade(FALSE, JEnvOk),
     Cascade(FALSE, [JEnvOk EXCEPT !.updErr = TRUE])}

TaskBodies ==
    {ItemBody("a1", p, "T", "x") : p \in PoemIds}
      \cup {ItemBody(Missing, 1, "T", "x"), ItemBody("a1", MissingId, "T", "x"),
            ItemBody("a1", 1, "T", Missing)}

Init == InitWith({{}}, {Conf(t, FALSE, "a") : t \in Thresholds})

Next ==
    \/ ForzaAnalisiReq(TaskBodies, ItemEnvs, CascadesBasic)
    \/ Respond

Spec == Init /\ [][Next]_vars

(***************************************************************************)
(* SpecUpsert: forza-analisi for two authors and two versions of the       *)
(* fields, the analyses succeeding                                         *)
(***************************************************************************)
UpsertBodies ==
    {ItemBody(a, p, f[1], f[2]) : a \in Authors, p \in PoemIds, f \in ItemFields}

UpsertEnvs == {IEnvOk, IEnv(TRUE, AllContent, FALSE, FALSE)}

NextUpsert ==
    \/ ForzaAnalisiReq(UpsertBodies, UpsertEnvs, {Cascade(FALSE, JEnvOk)})
    \/ Respond

SpecUpsert == Init /\ [][NextUpsert]_vars

(***************************************************************************)
(* SpecEdge: one author's poems inserted one after another (a request     *)
(* carries a stored poem_id or the next unused one), up to EdgeMultiples   *)
(* times the largest threshold                                             *)
(***************************************************************************)
EdgeBodies ==
    {ItemBody("a1", p, "T", "x") :
        p \in {q \in EdgePoemIds : q <= Cardinality(poems) + 1}}

EdgeEnvs == {IEnvOk, IEnv(FALSE, AllContent, FALSE, TRUE)}

NextEdge ==
    \/ ForzaAnalisiReq(EdgeBodies, EdgeEnvs, Cascades)
    \/ Respond

SpecEdge == Init /\ [][NextEdge]_vars

(***************************************************************************)
(* SpecSeries: up to MaxCalls requests to forza-analisi for one author,    *)
(* one after the other; a request carries a stored poem_id or the next     *)
(* unused one, and the invocations are kept in calls                       *)
(***************************************************************************)
SeriesBodies ==
    {ItemBody("a1", p, "T", "x") : p \in 1..(Cardinality(poems) + 1)}

SeriesCascades == {Cascade(FALSE, JEnvOk), Cascade(TRUE, JEnvOk)}

NextSeries ==
    \/ ForzaAnalisiLogged(SeriesBodies, EdgeEnvs, SeriesCascades)
    \/ Respond

SpecSeries == Init /\ [][NextSeries]_vars

(***************************************************************************)
(* SpecJournal: requests to aggiorna-journal for an author who has 0 to    *)
(* MaxPoems poems, for each deployed handler                               *)
(***************************************************************************)
SeedPoems(n) == {PoemRow(p, "a1", "T", "x", [t \in Tasks |-> "content"]) : p \in 1..n}

JournalConfs == {Conf(t, b, v) : t \in Thresholds, b \in BOOLEAN, v \in Variants}

InitJournal == InitWith({SeedPoems(n) : n \in 0..MaxPoems}, JournalConfs)

NextJournal ==
    \/ AggiornaJournalReq({JournalBody(a, d) : a \in {"a1", Missing}, d \in BOOLEAN}, JournalEnvs)
    \/ Respond
    \/ Tick

SpecJournal == InitJournal /\ [][NextJournal]_vars

(***************************************************************************)
(* SpecWrite: requests to aggiorna-journal for each of the four handlers,  *)
(* with every outcome of the QR render, of the read of the profile, of the *)
(* update and of the history insert                                        *)
(***************************************************************************)
AllVariants == Variants \cup {"b"}

WriteEnvs ==
    {[JEnvOk EXCEPT !.reply = r, !.qrOk = q, !.profRead = p] :
        r \in {"good", "fail"}, q \in BOOLEAN, p \in {"ok", "err", "noqrcol"}}
      \cup {[JEnvOk EXCEPT !.updErr = TRUE], [JEnvOk EXCEPT !.histErr = TRUE],
            [JEnvOk EXCEPT !.histErr = TRUE, !.reply = "fail", !.qrOk = FALSE]}

InitWrite ==
    InitWith({SeedPoems(n) : n \in 0..MaxPoems},
             {Conf(t, b, v) : t \in Thresholds, b \in BOOLEAN, v \in AllVariants})

NextWrite ==
    \/ AggiornaJournalReq({JournalBody("a1", d) : d \in BOOLEAN}, WriteEnvs)
    \/ Respond
    \/ Tick

SpecWrite == InitWrite /\ [][NextWrite]_vars

(***************************************************************************)
(* SpecRebuild: runs of rebuild-journal over three authors, the second     *)
(* handler of part_004 deployed as aggiorna-journal (it writes the         *)
(* diario_updated_at that the cooldown reads), the clock moving by half    *)
(* hours between and during the runs                                       *)
(***************************************************************************)
\* MIN_POEMS_TO_UPDATE, BACKFILL_CONCURRENCY, BACKFILL_COOLDOWN_HOURS
RebuildConf(threshold, concurrency, cooldown) ==
    [threshold |-> threshold, publicBase |-> FALSE, journalFn |-> "b",
     concurrency |-> concurrency, cooldown |-> cooldown]

RebuildConfs == {RebuildConf(1, w, c) : w \in 0..MaxWorkers, c \in 0..MaxCooldown}

\* one poem for each author of the set
SeedAuthors(as) == {PoemRow(i, Groups[i], "T", "x", NoAnalyses) : i \in {k \in Slots : Groups[k] \in as}}

RebuildSeeds == {SeedAuthors(GroupSet), SeedAuthors({"a1", "a2"}), SeedAuthors({})}

RebuildBodies ==
    {RebuildBody(a, f) : a \in {Missing, "a1"}, f \in BOOLEAN}

RebuildEnvs == {REnv(FALSE, FALSE), REnv(TRUE, FALSE), REnv(FALSE, TRUE)}

\* the fetch throws, aggiorna-journal answers 200, aggiorna-journal answers 500
TriggerOutcomes ==
    {Cascade(TRUE, JEnvOk), Cascade(FALSE, JEnvOk), Cascade(FALSE, [JEnvOk EXCEPT !.updErr = TRUE])}

InitRebuild ==
    /\ poems \in RebuildSeeds
    /\ profiles = [a \in GroupSet |-> EmptyProfile]
    /\ history = <<>>
    /\ now = 0
    /\ cfg \in RebuildConfs
    /\ last = Idle
    /\ run = NoRun
    /\ calls = <<>>
    /\ syns = <<>>

\* a request to rebuild-journal arrives
RebuildJournalReq ==
    /\ run.phase = "idle"
    /\ \E body \in RebuildBodies :
         \E env \in IF SingleMode(body) THEN {REnv(FALSE, FALSE)} ELSE RebuildEnvs :
            run' = RebuildStart(poems, profiles, body, env, now, cfg)
    /\ UNCHANGED <<poems, profiles, history, now, cfg, last, calls, syns>>

\* the triggerJournal of worker w returns with one of the outcomes
WorkerReturns(w, outcomes) ==
    /\ run.phase = "running"
    /\ run.cur[w] # Missing
    /\ \E c \in outcomes :
         LET t == TriggerJournal(Cur, run.cur[w], c, now, cfg)
         IN  /\ run' = WorkerResume(run, w, t)
             /\ poems' = t.st.poems
             /\ profiles' = t.st.profiles
             /\ history' = t.st.history
    /\ UNCHANGED <<now, cfg, last, calls, syns>>

WorkerReturn(w) == WorkerReturns(w, TriggerOutcomes)

\* the triggerJournal of the single-author request returns
SingleReturn ==
    /\ run.phase = "single"
    /\ \E c \in TriggerOutcomes :
         LET t == TriggerJournal(Cur, run.cur[1], c, now, cfg)
         IN  /\ run' = SingleResume(run, t)
             /\ poems' = t.st.poems
             /\ profiles' = t.st.profiles
             /\ history' = t.st.history
    /\ UNCHANGED <<now, cfg, last, calls, syns>>

\* Promise.all(workers) resolves and the totals are answered
RebuildFinish ==
    /\ run.phase = "running"
    /\ InFlight(run) = {}
    /\ run' = [run EXCEPT !.phase = "done", !.status = 200, !.ok = TRUE,
                          !.processed = Len(run.results),
                          !.okCount = OkCount(run.results),
                          !.avg_ms_per_author = AvgMs(run.results)]
    /\ UNCHANGED <<poems, profiles, history, now, cfg, last, calls, syns>>

\* the response is delivered and the invocation ends
RebuildRespond ==
    /\ run.phase = "done"
    /\ run' = NoRun
    /\ UNCHANGED <<poems, profiles, history, now, cfg, last, calls, syns>>

\* half an hour passes
HalfHourPasses ==
    /\ now < MaxHalfHours * HalfHour
    /\ now' = now + HalfHour
    /\ UNCHANGED <<poems, profiles, history, cfg, last, run, calls, syns>>

NextRebuild ==
    \/ RebuildJournalReq
    \/ \E w \in Slots : WorkerReturn(w)
    \/ SingleReturn
    \/ RebuildFinish
    \/ RebuildRespond
    \/ HalfHourPasses

SpecRebuild == InitRebuild /\ [][NextRebuild]_vars

(***************************************************************************)
(* SpecTotals: batch runs of rebuild-journal over three authors, each      *)
(* triggerJournal taking up to MaxElapsed milliseconds                     *)
(***************************************************************************)
TimedOutcomes == {Timed(c, ms) : c \in TriggerOutcomes, ms \in 0..MaxElapsed}

InitTotals ==
    /\ InitRebuild
    /\ cfg.cooldown = MaxCooldown

BatchArrivesUnder(envs) ==
    /\ run.phase = "idle"
    /\ \E f \in BOOLEAN, env \in envs :
          run' = RebuildStart(poems, profiles, RebuildBody(Missing, f), env, now, cfg)
    /\ UNCHANGED <<poems, profiles, history, now, cfg, last, calls, syns>>

BatchArrives == BatchArrivesUnder(RebuildEnvs)

NextTotals ==
    \/ BatchArrives
    \/ \E w \in Slots : WorkerReturns(w, TimedOutcomes)
    \/ RebuildFinish
    \/ RebuildRespond

SpecTotals == InitTotals /\ [][NextTotals]_vars

(***************************************************************************)
(* SpecLive: the batch runs of SpecTotals under fairness: a triggerJournal *)
(* that was called returns or throws (the fetch settles), and the handler  *)
(* resumes once Promise.all has settled                                    *)
(***************************************************************************)
NextLive ==
    \/ BatchArrives
    \/ \E w \in Slots : WorkerReturn(w)
    \/ RebuildFinish
    \/ RebuildRespond

SpecLive ==
    /\ InitTotals
    /\ [][NextLive]_vars
    /\ \A w \in Slots : WF_vars(WorkerReturn(w))
    /\ WF_vars(RebuildFinish)

(***************************************************************************)
(* SpecFailOpen: batch runs of rebuild-journal, one after the other, in    *)
(* which the select of the timestamps may fail or return no row for some   *)
(* authors                                                                 *)
(***************************************************************************)
FailOpenEnvs ==
    {REnv(FALSE, FALSE), REnv(FALSE, TRUE)}
      \cup {[REnv(FALSE, FALSE) EXCEPT !.noRow = as] : as \in {{"a1"}, {"a2", "a3"}}}

NextFailOpen ==
    \/ BatchArrivesUnder(FailOpenEnvs)
    \/ \E w \in Slots : WorkerReturn(w)
    \/ RebuildFinish
    \/ RebuildRespond

SpecFailOpen == InitRebuild /\ [][NextFailOpen]_vars

(***************************************************************************)
(* SpecCooldown: batch runs of rebuild-journal, one after the other, over  *)
(* two authors, for each handler that may be deployed as aggiorna-journal; *)
(* a run starts while the history has room                                 *)
(***************************************************************************)
CooldownConfs ==
    {[RebuildConf(1, 1, MaxCooldown) EXCEPT !.journalFn = v] : v \in AllVariants}

InitCooldown ==
    /\ poems = SeedAuthors({"a1", "a2"})
    /\ profiles = [a \in GroupSet |-> EmptyProfile]
    /\ history = <<>>
    /\ now = 0
    /\ cfg \in CooldownConfs
    /\ last = Idle
    /\ run = NoRun
    /\ calls = <<>>
    /\ syns = <<>>

\* a request without author_id arrives
BatchReq ==
    /\ run.phase = "idle"
    /\ Len(history) < MaxHistory
    /\ \E f \in BOOLEAN :
          run' = RebuildStart(poems, profiles, RebuildBody(Missing, f), REnv(FALSE, FALSE), now, cfg)
    /\ UNCHANGED <<poems, profiles, history, now, cfg, last, calls, syns>>

NextCooldown ==
    \/ BatchReq
    \/ \E w \in Slots : WorkerReturn(w)
    \/ RebuildFinish
    \/ RebuildRespond
    \/ HalfHourPasses

SpecCooldown == InitCooldown /\ [][NextCooldown]_vars

(***************************************************************************)
(* forza-analisi/index.ts: the item analysis that asks OpenAI once for the *)
(* three analyses, and its journal trigger                                 *)
(***************************************************************************)
\* isUuid of an author id: the ids of Authors stand for well-formed UUIDs
IsUuidAuthor(authorId) == authorId \in Authors

\* what analyzePoemWithOpenAI returns for each of the three keys: the parsed
\* value, {} for a key the JSON lacks, the text wrapped in an object when
\* the content is not JSON
AnalyzePoemWithOpenAI(reply) ==
    [t \in Tasks |-> IF reply = "emptyobj" THEN "emptyobj" ELSE "content"]

\* maybeTriggerJournal up to the fetch: whether aggiorna-journal is fetched
MaybeTriggerJournal(authorId, poemsCount, conf) ==
    /\ IsUuidAuthor(authorId)
    /\ ~(poemsCount < conf.threshold)
    /\ conf.publicBase

\* the handler in manual mode up to the fetch of maybeTriggerJournal:
\* upsert, analysis, update, count; an error of Supabase or of OpenAI is
\* thrown to the outer catch; dispatch says whether the fetch is issued
ForzaAnalisiIndexPre(st, body, env, conf) ==
    LET authorId == body.author_id
        poemId   == body.poem_id
        manual   == body.title # Missing \/ body.content # Missing \/ authorId # Missing
        how      == IF ~manual THEN "none"
                    ELSE IF \E r \in st.poems : r.id = poemId THEN "updated" ELSE "inserted"
        upserted == IF manual
                    THEN [st EXCEPT !.poems =
                            UpsertPoemMinimal(@, poemId, authorId, body.title, body.content)]
                    ELSE st
        reply    == env.tasks[1][1]
        analysed == [upserted EXCEPT !.poems =
                        UpdatePoemAnalyses(@, poemId, AnalyzePoemWithOpenAI(reply))]
        poemsCount == IF IsUuidAuthor(authorId) THEN CountRows(analysed.poems, authorId) ELSE 0
        fire     == MaybeTriggerJournal(authorId, poemsCount, conf)
        tr(status, up, written, count, dispatched) ==
            [ITrace(body, status, up, NotAsked, written, count, FALSE, dispatched, "none", FALSE)
                EXCEPT !.upsertErr = manual /\ env.upsertErr, !.countErr = env.countErr]
    IN  IF poemId = MissingId
        THEN [st |-> st, dispatch |-> FALSE,
              tr |-> ITrace(body, 400, "none", NotAsked, FALSE, 0 - 1, FALSE, FALSE, "none", FALSE)]
        ELSE IF manual /\ env.upsertErr
        THEN [st |-> st, dispatch |-> FALSE, tr |-> tr(500, "none", FALSE, 0 - 1, FALSE)]
        ELSE IF reply = "fail" \/ env.updateErr
        THEN [st |-> upserted, dispatch |-> FALSE, tr |-> tr(500, how, FALSE, 0 - 1, FALSE)]
        ELSE IF IsUuidAuthor(authorId) /\ env.countErr
        THEN [st |-> analysed, dispatch |-> FALSE, tr |-> tr(500, how, TRUE, 0 - 1, FALSE)]
        ELSE [st |-> analysed, dispatch |-> fire, tr |-> tr(200, how, TRUE, poemsCount, fire)]

\* the whole handler: a fetch that throws is caught inside
\* maybeTriggerJournal, any answer sets triggered
ForzaAnalisiIndex(st, body, env, cascade, clock, conf) ==
    LET pre == ForzaAnalisiIndexPre(st, body, env, conf)
    IN  IF ~pre.dispatch
        THEN [st |-> pre.st, casc |-> NoJTrace, tr |-> pre.tr]
        ELSE IF cascade.throws
        THEN [st |-> pre.st, casc |-> NoJTrace, tr |-> [pre.tr EXCEPT !.fetch = "threw"]]
        ELSE LET j == AggiornaJournal(pre.st, CascadeBody(body.author_id), cascade.env,
                                      clock, conf)
             IN  [st |-> j.st, casc |-> j.tr,
                  tr |-> [pre.tr EXCEPT !.fetch = "answered", !.triggered = TRUE]]

\* one request to forza-analisi/index.ts
ForzaAnalisiIndexReq(bodies, envs, cascades) ==
    \E body \in bodies, env \in envs, c \in cascades :
        LET res == ForzaAnalisiIndex(Cur, body, env, c, now, cfg)
        IN  /\ Commit(res.st, "index", res.tr, res.casc)
            /\ UNCHANGED calls

(***************************************************************************)
(* SpecIndex: one author's poems sent one after another to                 *)
(* forza-analisi/index.ts, up to EdgeMultiples times the largest threshold *)
(***************************************************************************)
IndexEnvs ==
    {IEnvOk, IEnv(TRUE, AllContent, FALSE, FALSE), IEnv(FALSE, AllContent, TRUE, FALSE),
     IEnv(FALSE, AllContent, FALSE, TRUE),
     IEnv(FALSE, [AllContent EXCEPT ![1] = <<"fail", "content", "content">>], FALSE, FALSE)}

InitIndex ==
    InitWith({{}}, {Conf(t, b, "a") : t \in Thresholds, b \in BOOLEAN})

NextIndex ==
    \/ ForzaAnalisiIndexReq(EdgeBodies \cup {ItemBody("a1", MissingId, "T", "x")},
                            IndexEnvs, SeriesCascades)
    \/ Respond

SpecIndex == InitIndex /\ [][NextIndex]_vars

(***************************************************************************)
(* The chain of requests one forza-analisi request starts: forza-analisi   *)
(* fetches aggiorna-journal, and the aggiorna-journal handlers that do not *)
(* call OpenAI themselves fetch forza-analisi.  calls is the stack of the  *)
(* invocations of the chain, the innermost last.                           *)
(***************************************************************************)
\* an invocation of the chain: the endpoint it arrived at, its body, and
\* what it did so far (status is 0 before the response is made)
Hop(at, body) ==
    [at |-> at, body |-> body, status |-> 0, upsert |-> "none", fetches |-> 0, wrote |-> FALSE]

\* the aggiorna-journal handlers that forward to forza-analisi: the proxy of
\* aggiorna-journal/index.ts and the handler of part_002
Forwarders == {"proxy", "fwd"}

\* a forward that carries a poem along
ForwardBodyWithPoem(authorId) == ItemBody(authorId, 1, "T", "x")

\* body: JSON.stringify({ author_id: authorId, ... }): no poem id, no
\* title, no content
ForwardBody(authorId) == ItemBody(authorId, MissingId, Missing, Missing)

\* a forwarder up to its fetch of forza-analisi: the response it makes
\* before, or 0 when it fetches
ForwarderPre(fn, st, body, env, conf) ==
    LET authorId   == body.author_id
        poemsCount == CountRows(st.poems, authorId)
    IN  IF authorId = Missing \/ (fn = "proxy" /\ ~IsUuidAuthor(authorId)) THEN 400
        ELSE IF env.countErr THEN 500
        ELSE IF BelowThreshold(poemsCount, conf) THEN 200
        ELSE IF fn = "proxy" THEN 0
        ELSE IF env.poemsErr THEN 500
        ELSE IF {r \in st.poems : r.author = authorId} = {} THEN 404
        ELSE IF body.dry_run THEN 200
        ELSE 0

\* a forwarder after its fetch (answered is the status forza-analisi
\* answered, 0 when the fetch threw): the proxy passes the status on, the
\* handler of part_002 stores what was answered, or the fallback when the
\* fetch threw or the answer is not ok, and inserts it in the history
ForwarderPost(fn, st, body, answered, env, clock, conf) ==
    LET authorId == body.author_id
        ok      == answered >= 200 /\ answered < 300
        diario  == IF ok THEN [kind |-> "provider", keys |-> {}] ELSE FallbackJournal("a")
        row     == [st.profiles[authorId] EXCEPT !.poetic_journal = diario,
                                                 !.last_updated = clock]
        entry   == [author_id |-> authorId, contenuto |-> diario,
                    source |-> "netlify/aggiorna-journal"]
    IN  IF fn = "proxy"
        THEN [st |-> st, status |-> IF answered = 0 THEN 500 ELSE answered, wrote |-> FALSE]
        ELSE IF env.updErr
        THEN [st |-> st, status |-> 500, wrote |-> FALSE]
        ELSE [st |-> [st EXCEPT !.profiles = UpdateWhereId(@, authorId, row),
                                !.history = InsertHistory(@, entry, env.histErr)],
              status |-> 200, wrote |-> TRUE]

\* the item analysis deployed at /.netlify/functions/forza-analisi
ItemPre(st, body, env, conf) ==
    IF conf.itemFn = "index"
    THEN ForzaAnalisiIndexPre(st, body, env, conf)
    ELSE ForzaAnalisiPre(st, body, env, conf)

Top == calls[Len(calls)]

SetTop(c) == [calls EXCEPT ![Len(calls)] = c]

StoreIs(st) ==
    /\ poems' = st.poems
    /\ profiles' = st.profiles
    /\ history' = st.history

\* a client posts to forza-analisi, while the history has room for the
\* row its chain may insert
ChainArrive(bodies) ==
    /\ calls = <<>>
    /\ Len(history) < MaxHistory
    /\ \E body \in bodies : calls' = <<Call("arrived", Hop("forza-analisi", body))>>
    /\ UNCHANGED <<poems, profiles, history, now, cfg, last, run, syns>>

\* forza-analisi runs up to its response or up to its fetch of
\* aggiorna-journal; a fetch that throws ends part_000 with 500 and leaves
\* the handler of forza-analisi/index.ts at 200
ChainItem(envs) ==
    /\ calls # <<>>
    /\ Top.pc = "arrived"
    /\ Top.tr.at = "forza-analisi"
    /\ \E env \in envs, throws \in BOOLEAN :
          LET pre  == ItemPre(Cur, Top.tr.body, env, cfg)
              ran  == [Top.tr EXCEPT !.upsert = pre.tr.upsert,
                                     !.fetches = IF pre.dispatch THEN 1 ELSE 0]
          IN  /\ StoreIs(pre.st)
              /\ calls' =
                    IF ~pre.dispatch
                    THEN SetTop(Call("returned", [ran EXCEPT !.status = pre.tr.status]))
                    ELSE IF throws \/ Len(calls) >= MaxDepth
                    THEN SetTop(Call("returned",
                                     [ran EXCEPT !.status = IF cfg.itemFn = "index"
                                                            THEN 200 ELSE 500]))
                    ELSE Append(SetTop(Call("awaiting", ran)),
                                Call("arrived", Hop("aggiorna-journal",
                                                    CascadeBody(Top.tr.body.author_id))))
    /\ UNCHANGED <<now, cfg, last, run, syns>>

\* aggiorna-journal runs: a handler that calls OpenAI itself runs to its
\* response, a forwarder up to its response or its fetch of forza-analisi
ChainJournal(envs) ==
    /\ calls # <<>>
    /\ Top.pc = "arrived"
    /\ Top.tr.at = "aggiorna-journal"
    /\ \E env \in envs, throws \in BOOLEAN :
          IF cfg.journalFn \in Forwarders
          THEN LET early == ForwarderPre(cfg.journalFn, Cur, Top.tr.body, env, cfg)
                   post  == ForwarderPost(cfg.journalFn, Cur, Top.tr.body, 0, env, now, cfg)
               IN  IF early # 0
                   THEN /\ calls' = SetTop(Call("returned", [Top.tr EXCEPT !.status = early]))
                        /\ UNCHANGED <<poems, profiles, history>>
                   ELSE IF throws \/ Len(calls) >= MaxDepth
                   THEN /\ calls' = SetTop(Call("returned",
                                                [Top.tr EXCEPT !.status = post.status,
                                                               !.fetches = 1,
                                                               !.wrote = post.wrote]))
                        /\ StoreIs(post.st)
                   ELSE /\ calls' = Append(SetTop(Call("awaiting", [Top.tr EXCEPT !.fetches = 1])),
                                           Call("arrived",
                                                Hop("forza-analisi",
                                                    ForwardBody(Top.tr.body.author_id))))
                        /\ UNCHANGED <<poems, profiles, history>>
          ELSE LET res == AggiornaJournal(Cur, Top.tr.body, env, now, cfg)
               IN  /\ calls' = SetTop(Call("returned", [Top.tr EXCEPT !.status = res.tr.status,
                                                                      !.wrote = res.tr.wrote]))
                   /\ StoreIs(res.st)
    /\ UNCHANGED <<now, cfg, last, run, syns>>

\* the innermost invocation answers its caller, which runs to its response
ChainReturn(envs) ==
    /\ Len(calls) >= 2
    /\ Top.pc = "returned"
    /\ LET caller == calls[Len(calls) - 1]
           rest   == SubSeq(calls, 1, Len(calls) - 2)
       IN  IF caller.tr.at = "forza-analisi"
           THEN /\ calls' = Append(rest, Call("returned", [caller.tr EXCEPT !.status = 200]))
                /\ UNCHANGED <<poems, profiles, history>>
           ELSE \E env \in envs :
                  LET post == ForwarderPost(cfg.journalFn, Cur, caller.tr.body, Top.tr.status,
                                            env, now, cfg)
                  IN  /\ calls' = Append(rest, Call("returned",
                                                    [caller.tr EXCEPT !.status = post.status,
                                                                      !.wrote = post.wrote]))
                      /\ StoreIs(post.st)
    /\ UNCHANGED <<now, cfg, last, run, syns>>

\* the client receives the response of its request
ChainEnds ==
    /\ Len(calls) = 1
    /\ Top.pc = "returned"
    /\ calls' = <<>>
    /\ UNCHANGED <<poems, profiles, history, now, cfg, last, run, syns>>

(***************************************************************************)
(* SpecChain: requests to forza-analisi for one author, one chain at a     *)
(* time, for each item analysis and each aggiorna-journal that may be      *)
(* deployed                                                                *)
(***************************************************************************)
ChainConf(threshold, itemFn, journalFn) ==
    [threshold |-> threshold, publicBase |-> TRUE, journalFn |-> journalFn, itemFn |-> itemFn]

ChainConfs ==
    {ChainConf(t, f, v) : t \in Thresholds, f \in {"part_000", "index"},
                          v \in AllVariants \cup Forwarders}

ChainBodies ==
    {ItemBody("a1", p, "T", "x") : p \in 1..Min(Cardinality(poems) + 1, MaxThreshold + 1)}
      \cup {ItemBody("a1", MissingId, "T", "x")}

ChainJournalEnvs ==
    {JEnvOk, [JEnvOk EXCEPT !.reply = "fail"], [JEnvOk EXCEPT !.countErr = TRUE],
     [JEnvOk EXCEPT !.updErr = TRUE]}

InitChain == InitWith({{}}, ChainConfs)

NextChain ==
    \/ ChainArrive(ChainBodies)
    \/ ChainItem(EdgeEnvs)
    \/ ChainJournal(ChainJournalEnvs)
    \/ ChainReturn(ChainJournalEnvs)
    \/ ChainEnds

SpecChain == InitChain /\ [][NextChain]_vars

(***************************************************************************)
(* SpecCorpus: requests to aggiorna-journal, for each of the four          *)
(* handlers, for an author whose poems were created in an order that may   *)
(* differ from the order of their ids                                      *)
(***************************************************************************)
\* poems 1..n of a1, the poem with id p created at times[p]
CreatedAt(n, times) ==
    {[PoemRow(p, "a1", "T", "x", NoAnalyses) EXCEPT !.created_at = times[p]] : p \in 1..n}

CorpusSeeds ==
    UNION {{CreatedAt(n, times) : times \in [1..n -> 0..MaxPoems]} : n \in 1..(MaxPoems + 1)}

InitCorpus ==
    InitWith(CorpusSeeds, {Conf(t, FALSE, v) : t \in Thresholds, v \in AllVariants})

NextCorpus ==
    \/ AggiornaJournalReq({JournalBody("a1", d) : d \in BOOLEAN},
                          {[JEnvOk EXCEPT !.reply = r] : r \in {"good", "fail"}})
    \/ Respond

SpecCorpus == InitCorpus /\ [][NextCorpus]_vars

(***************************************************************************)
(* SpecRace: up to MaxRacers invocations of forza-analisi for one author   *)
(* run together.  An invocation is interrupted only at its awaits, so its  *)
(* steps are: the upsert, the analyses with their update, the count with   *)
(* the trigger test, and the cascade with the response.  Each Supabase     *)
(* call succeeds and takes effect at one instant.                          *)
(***************************************************************************)
\* countPoemsByAuthor as if each invocation saw only the rows of the
\* invocations that arrived before it
CountSeenSerial(i, ps) ==
    CountRows({r \in ps : ~\E j \in DOMAIN calls :
                              /\ j > i
                              /\ calls[j].tr.upsert = "inserted"
                              /\ calls[j].tr.body.poem_id = r.id},
              calls[i].tr.body.author_id)

\* countPoemsByAuthor of invocation i: the rows of the author stored when
\* the select runs
CountSeen(i, ps) == CountRows(ps, calls[i].tr.body.author_id)

\* a trigger test that passes once for each count
DecideOnce(i, poemsCount) ==
    /\ ShouldTrigger(FALSE, poemsCount, cfg.threshold)
    /\ ~\E j \in DOMAIN calls :
          j # i /\ calls[j].tr.dispatched /\ calls[j].tr.count = poemsCount

\* the trigger test of invocation i
Decide(i, poemsCount) == ShouldTrigger(FALSE, poemsCount, cfg.threshold)

\* the request is validated and the poem upserted
RaceUpsert(ps, body) ==
    LET how == IF \E r \in ps : r.id = body.poem_id THEN "updated" ELSE "inserted"
    IN  [poems |-> UpsertPoemMinimal(ps, body.poem_id, body.author_id, body.title, body.content),
         call  |-> Call("upserted",
                        ITrace(body, 0, how, NotAsked, FALSE, 0 - 1, FALSE, FALSE, "none", FALSE))]

\* the three analyses return and are written to the poem
RaceAnalyse(ps, call, tasks) ==
    LET asked == [t \in Tasks |-> AskGPT(tasks[t])]
    IN  [poems |-> UpdatePoemAnalyses(ps, call.tr.body.poem_id,
                                      [t \in Tasks |-> asked[t].result]),
         call  |-> Call("analysed", [call.tr EXCEPT !.asked = asked, !.written = TRUE])]

\* the count is read and the trigger test made
RaceCount(i, ps) ==
    LET poemsCount == CountSeen(i, ps)
    IN  Call("counted", [calls[i].tr EXCEPT !.count = poemsCount, !.status = 200,
                                            !.dispatched = Decide(i, poemsCount)])

RaceBodies == {ItemBody("a1", p, "T", "x") : p \in 1..(MaxPoems + MaxRacers)}

InitRace == InitWith({SeedPoems(n) : n \in 0..MaxPoems}, {Conf(t, FALSE, "a") : t \in Thresholds})

\* a request arrives and its upsert is made
RaceArrive ==
    /\ Len(calls) < MaxRacers
    /\ \E body \in RaceBodies :
         LET u == RaceUpsert(poems, body)
         IN  /\ poems' = u.poems
             /\ calls' = Append(calls, u.call)
    /\ UNCHANGED <<profiles, history, now, cfg, last, run, syns>>

RaceAnalysed(i) ==
    /\ calls[i].pc = "upserted"
    /\ LET a == RaceAnalyse(poems, calls[i], AllContent)
       IN  /\ poems' = a.poems
           /\ calls' = [calls EXCEPT ![i] = a.call]
    /\ UNCHANGED <<profiles, history, now, cfg, last, run, syns>>

RaceCounted(i) ==
    /\ calls[i].pc = "analysed"
    /\ calls' = [calls EXCEPT ![i] = RaceCount(i, poems)]
    /\ UNCHANGED <<poems, profiles, history, now, cfg, last, run, syns>>

\* the fetch of aggiorna-journal, when it is made, returns or throws, and
\* the response is produced
RaceResponds(i) ==
    /\ calls[i].pc = "counted"
    /\ IF calls[i].tr.dispatched
       THEN \E c \in SeriesCascades :
               LET res == ForzaAnalisiCascade([st |-> Cur, dispatch |-> TRUE, tr |-> calls[i].tr],
                                              c, now, cfg)
               IN  /\ poems' = res.st.poems
                   /\ profiles' = res.st.profiles
                   /\ history' = res.st.history
                   /\ calls' = [calls EXCEPT ![i] = Call("done", res.tr)]
       ELSE /\ calls' = [calls EXCEPT ![i].pc = "done"]
            /\ UNCHANGED <<poems, profiles, history>>
    /\ UNCHANGED <<now, cfg, last, run, syns>>

NextRace ==
    \/ RaceArrive
    \/ \E i \in DOMAIN calls : RaceAnalysed(i)
    \/ \E i \in DOMAIN calls : RaceCounted(i)
    \/ \E i \in DOMAIN calls : RaceResponds(i)

SpecRace == InitRace /\ [][NextRace]_vars

(***************************************************************************)
(* SpecSynth: up to MaxRacers invocations of aggiorna-journal (the handler *)
(* with history) for one author run together, whoever requested them.  An *)
(* invocation reads the count, the poems and the profile, awaits OpenAI,   *)
(* and then updates the profile and inserts the history row.               *)
(***************************************************************************)
\* an invocation of aggiorna-journal: where it stands, what it read, and
\* its trace once it answered
Syn(pc, body, count, prev, existingQr, tr) ==
    [pc |-> pc, body |-> body, count |-> count, prev |-> prev, existingQr |-> existingQr,
     tr |-> tr]

\* steps 1 to 3: the count with the threshold test, and the read of the
\* previous journal and of the QR
SynRead(st, body, conf) ==
    LET authorId   == body.author_id
        poemsCount == CountRows(st.poems, authorId)
        previous   == PreviousOf(st.profiles[authorId].poetic_journal)
        existingQr == st.profiles[authorId].qr_code_url
    IN  IF BelowThreshold(poemsCount, conf)
        THEN Syn("done", body, poemsCount, NullJournal, FALSE,
                 JReply(st, "a", body, JEnvOk, 200, FALSE, FALSE, poemsCount, 0,
                        NullJournal, NullJournal).tr)
        ELSE Syn("read", body, poemsCount, previous, existingQr, NoJTrace)

\* steps 5 to 8 of an invocation that read earlier
SynWrite(st, syn, env, clock, conf) ==
    JournalAWrite(st, syn.body, syn.count, syn.prev, syn.existingQr, TRUE, env, clock, conf)

SynEnvs ==
    {[JEnvOk EXCEPT !.reply = r] : r \in {"good", "fail"}} \cup {[JEnvOk EXCEPT !.updErr = TRUE]}

InitSynth ==
    InitWith({SeedPoems(n) : n \in 1..MaxPoems}, {Conf(t, b, "a") : t \in Thresholds, b \in BOOLEAN})

\* a request arrives and the invocation makes its reads
SynArrives ==
    /\ Len(syns) < MaxRacers
    /\ syns' = Append(syns, SynRead(Cur, JournalBody("a1", FALSE), cfg))
    /\ UNCHANGED <<poems, profiles, history, now, cfg, last, run, calls>>

\* OpenAI answers, the invocation writes and responds
SynWrites(i) ==
    /\ syns[i].pc = "read"
    /\ \E env \in SynEnvs :
         LET res == SynWrite(Cur, syns[i], env, now, cfg)
         IN  /\ poems' = res.st.poems
             /\ profiles' = res.st.profiles
             /\ history' = res.st.history
             /\ syns' = [syns EXCEPT ![i] = [@ EXCEPT !.pc = "done", !.tr = res.tr]]
    /\ UNCHANGED <<now, cfg, last, run, calls>>

NextSynth ==
    \/ SynArrives
    \/ \E i \in DOMAIN syns : SynWrites(i)
    \/ Tick

SpecSynth == InitSynth /\ [][NextSynth]_vars

(***************************************************************************)
(* Properties.  They read the trace of the last invocation: last.item is   *)
(* what forza-analisi did and answered, last.journal what aggiorna-journal *)
(* did, called directly or by the cascade.                                 *)
(***************************************************************************)
ItemDone == last.op = "item"

JournalDone == last.op = "journal"

\* the count c of the claim is a multiple of the threshold T, at least T
AtMultiple(c, T) == c >= T /\ c % T = 0

\* C1: for every threshold T >= 1 and every count c that forza-analisi read
\* without error after its upsert, the handler dispatches the cascade exactly
\* when c >= T and c mod T = 0, and its answer reports journal_triggered
\* exactly then
C1_CascadeRule ==
    (ItemDone /\ last.item.written /\ ~last.item.countErr) =>
        /\ last.item.dispatched <=> AtMultiple(last.item.count, cfg.threshold)
        /\ last.item.status = 200 =>
              (last.item.triggered <=> AtMultiple(last.item.count, cfg.threshold))

\* with T = 3 the sixth poem triggers
C1_Witness ==
    /\ ItemDone
    /\ cfg.threshold = 3
    /\ last.item.count = 6
    /\ last.item.status = 200
    /\ last.item.triggered

C3_FailedTaskDegrades ==
    \A t \in Tasks :
        (ItemDone /\ last.item.asked[t].fails = 2) =>
            /\ last.item.asked[t].result = "empty"
            /\ last.item.written
            /\ last.item.status = 200

\* C4 as stated: a cascade whose request throws or answers a non-success
\* status leaves the outcome of forza-analisi a success, the analyses saved
C4_CascadeFailureTolerated ==
    (/\ ItemDone
     /\ last.item.dispatched
     /\ \/ last.item.fetch = "threw"
        \/ last.item.fetch = "answered" /\ last.journal.status # 200) =>
        /\ last.item.status = 200
        /\ last.item.written

\* a request of the claim: group, item or text absent or empty
LacksField(body) ==
    body.author_id = Missing \/ body.poem_id = MissingId \/ body.content = Missing

\* C5: a request to forza-analisi whose author_id, poem_id or content is
\* absent or empty is answered 400 before any effect: nothing is upserted,
\* no analysis is asked, no count is read, no cascade is dispatched and the
\* store is unchanged
C5_InvalidRejected ==
    [][(last'.op = "item" /\ LacksField(last'.item.body)) =>
          /\ last'.item.status = 400
          /\ last'.item.upsert = "none"
          /\ \A t \in Tasks : last'.item.asked[t].n = 0
          /\ ~last'.item.written
          /\ last'.item.count = 0 - 1
          /\ ~last'.item.dispatched
          /\ UNCHANGED <<poems, profiles, history>>]_vars

\* a request without text is rejected while the store holds a poem
C5_Witness ==
    /\ ItemDone
    /\ last.item.body.content = Missing
    /\ last.item.body.author_id # Missing
    /\ last.item.status = 400
    /\ poems # {}

\* C6: after forza-analisi upserts a poem_id, exactly one row has that id and
\* it holds the title and text of this call; when the id was already stored
\* for the same author, the author's count is what it was
C6_UpsertIdempotent ==
    [][(last'.op = "item" /\ last'.item.upsert # "none") =>
          LET b == last'.item.body
              rows == {r \in poems' : r.id = b.poem_id}
          IN  /\ Cardinality(rows) = 1
              /\ \A r \in rows :
                    r.author = b.author_id /\ r.titolo = b.title /\ r.testo = b.content
              /\ (\E r \in poems : r.id = b.poem_id /\ r.author = b.author_id) =>
                    /\ last'.item.upsert = "updated"
                    /\ CountRows(poems', b.author_id) = CountRows(poems, b.author_id)]_vars

\* a stored poem is sent again with another title and text
C6_Witness ==
    /\ ItemDone
    /\ last.item.upsert = "updated"
    /\ last.item.status = 200
    /\ last.item.body.title = Missing
    /\ \E r \in poems :
          /\ r.id = last.item.body.poem_id
          /\ r.author = last.item.body.author_id
          /\ r.testo = "y"
    /\ Cardinality(poems) = MaxPoems

\* C7: when aggiorna-journal reads a count below the threshold it answers
\* 200 with triggered false, calls no provider, makes no QR artifact and
\* leaves profiles and the history unchanged
C7_BelowThresholdNoEffect ==
    [][(/\ last'.op = "journal"
        /\ last'.journal.count >= 0
        /\ last'.journal.count < cfg.threshold) =>
          /\ last'.journal.status = 200
          /\ ~last'.journal.triggered
          /\ last'.journal.provCalls = 0
          /\ ~last'.journal.qrGenerated
          /\ ~last'.journal.wrote
          /\ UNCHANGED <<poems, profiles, history>>]_vars

\* one poem short of the threshold
C7_Witness ==
    /\ JournalDone
    /\ last.journal.count >= 1
    /\ last.journal.count + 1 = cfg.threshold
    /\ ~last.journal.body.dry_run
    /\ last.journal.status = 200

\* C8 as stated: a dry run at or above the threshold never calls the
\* provider, makes no artifact and writes nothing
C8_DryRunNoProvider ==
    (/\ JournalDone
     /\ last.journal.body.dry_run
     /\ last.journal.count >= cfg.threshold) =>
        /\ last.journal.provCalls = 0
        /\ ~last.journal.qrGenerated
        /\ ~last.journal.wrote
        /\ ~last.journal.hist

\* the store answers every call of the invocation
NoStoreFault(env) ==
    /\ ~env.countErr
    /\ ~env.poemsErr
    /\ env.profRead = "ok"
    /\ ~env.updErr
    /\ ~env.histErr

\* C9 as stated: when the provider's call fails in a synthesis at or above
\* the threshold, the request answers 200 with triggered true and the
\* fallback journal with every required key is stored with the new
\* last_updated
C9_ProviderFailureFallback ==
    (/\ JournalDone
     /\ ~last.journal.body.dry_run
     /\ last.journal.count >= cfg.threshold
     /\ last.journal.provCalls = 1
     /\ last.journal.env.reply = "fail"
     /\ NoStoreFault(last.journal.env)) =>
        LET row == profiles[last.journal.body.author_id]
        IN  /\ last.journal.status = 200
            /\ last.journal.triggered
            /\ row.poetic_journal.kind = "fallback"
            /\ WellFormed(row.poetic_journal, last.journal.variant)
            /\ row.last_updated = now

\* C10 as stated, for the handlers whose prompt asks for a keyed journal:
\* every journal written by aggiorna-journal is non-null and carries every
\* required key, whatever the provider replied
C10_WrittenJournalWellFormed ==
    (JournalDone /\ last.journal.wrote /\ last.journal.variant \in {"a", "v2"}) =>
        WellFormed(profiles[last.journal.body.author_id].poetic_journal, last.journal.variant)

\* the handlers that render a QR artifact
Rendering == {"a", "b", "v2"}

\* C11: when the QR render fails in a synthesis whose store calls succeed,
\* the journal and its timestamp are still persisted, no qr_code_url is
\* written and the answer is 200 with triggered true and qrGenerated false
C11_ArtifactSoftFail ==
    [][(/\ last'.op = "journal"
        /\ last'.journal.variant \in Rendering
        /\ last'.journal.provCalls = 1
        /\ cfg.publicBase
        /\ ~profiles[last'.journal.body.author_id].qr_code_url
        /\ ~last'.journal.env.qrOk
        /\ last'.journal.env.profRead = "ok"
        /\ ~last'.journal.env.updErr) =>
          LET tr  == last'.journal
              row == profiles'[tr.body.author_id]
          IN  /\ tr.status = 200
              /\ tr.triggered
              /\ ~tr.qrGenerated
              /\ ~row.qr_code_url
              /\ tr.journal # NullJournal
              /\ JournalOf(row, tr.variant) = tr.journal
              /\ UpdatedAtOf(row, tr.variant) = now]_vars

\* a synthesis with a public URL and no stored QR, whose render failed
C11_Witness ==
    /\ JournalDone
    /\ last.journal.variant = "a"
    /\ last.journal.wrote
    /\ cfg.publicBase
    /\ ~last.journal.env.qrOk
    /\ last.journal.env.profRead = "ok"
    /\ ~profiles[last.journal.body.author_id].qr_code_url
    /\ profiles[last.journal.body.author_id].last_updated = now

\* C12 as stated: a QR artifact is generated and written only by a synthesis
\* that runs with a public URL configured while the author has no stored
\* qr_code_url, so that a stored artifact is never written again
C12_ArtifactAtMostOnce ==
    [][(last'.op = "journal" /\ last'.journal.qrGenerated) =>
          /\ cfg.publicBase
          /\ ~profiles[last'.journal.body.author_id].qr_code_url]_vars

\* C13 as stated: the history only grows at its end; a synthesis that
\* persisted a journal appended exactly one entry holding that journal, and
\* a call that persisted none (failed write, dry run, below threshold)
\* appended nothing
C13_HistoryPerSynthesis ==
    [][/\ Len(history') >= Len(history)
       /\ SubSeq(history', 1, Len(history)) = history
       /\ (last'.op = "journal" /\ last'.journal.wrote) =>
             /\ Len(history') = Len(history) + 1
             /\ history'[Len(history')].author_id = last'.journal.body.author_id
             /\ history'[Len(history')].contenuto = last'.journal.journal
       /\ (last'.op = "journal" /\ ~last'.journal.wrote) =>
             history' = history]_vars

\* C14: when the insert into the history fails after the update of profiles
\* succeeded, the written journal and timestamp stay in place, nothing is
\* appended, and the answer is 200 with triggered true and the new journal
C14_HistoryFailureLogged ==
    [][(/\ last'.op = "journal"
        /\ last'.journal.variant = "a"
        /\ last'.journal.provCalls = 1
        /\ ~last'.journal.env.updErr
        /\ last'.journal.env.histErr) =>
          LET tr  == last'.journal
              row == profiles'[tr.body.author_id]
          IN  /\ tr.status = 200
              /\ tr.triggered
              /\ tr.journal # NullJournal
              /\ row.poetic_journal = tr.journal
              /\ row.last_updated = now
              /\ history' = history]_vars

\* a second synthesis whose history insert failed: the journal is the new
\* one, the history still has the entry of the first
C14_Witness ==
    /\ JournalDone
    /\ last.journal.variant = "a"
    /\ last.journal.env.histErr
    /\ last.journal.status = 200
    /\ last.journal.triggered
    /\ Len(history) = 1
    /\ profiles[last.journal.body.author_id].poetic_journal = last.journal.journal
    /\ history[1].contenuto # last.journal.journal

\* a batch run that got past discovery starts (or is answered at once)
BatchStarts ==
    /\ run.phase = "idle"
    /\ run'.phase \in {"running", "done"}
    /\ run'.body.author_id = Missing
    /\ ~run'.env.discErr

\* C15 as stated: when the timestamps were read, a discovered author is
\* listed in skipped with reason "cooldown" exactly when force is not set
\* and the time since its last update is strictly below the cooldown
\* window; an author without timestamp or with an elapsed time equal to or
\* above the window is processed
C15_CooldownGate ==
    [][(BatchStarts /\ ~run'.env.mapErr) =>
          \A i \in DOMAIN run'.authors :
             LET a  == run'.authors[i]
                 ts == profiles[a].diario_updated_at
             IN  /\ (\E k \in DOMAIN run'.skipped :
                        /\ run'.skipped[k].author_id = a
                        /\ run'.skipped[k].reason = "cooldown")
                      <=> (/\ ~run'.body.force
                           /\ ts # NoTime
                           /\ now - ts < HoursToMs(cfg.cooldown))
                 /\ InSeq(a, run'.toProcess)
                      <=> (\/ run'.body.force
                           \/ ts = NoTime
                           \/ now - ts >= HoursToMs(cfg.cooldown))]_vars

\* a batch run has been answered with its totals
BatchDone ==
    /\ run.phase = "done"
    /\ run.body.author_id = Missing
    /\ ~run.env.discErr

\* how many results, skipped entries and workers carry the author
TimesIn(sq, a) == Cardinality({k \in DOMAIN sq : sq[k].author_id = a})

TimesInFlight(a) == Cardinality({w \in Slots : run.cur[w] = a})

\* C16 as stated: for every worker count, a batch run that answers success
\* lists each discovered author exactly once, in results or in skipped
C16_EachGroupAccounted ==
    (BatchDone /\ run.status = 200) =>
        \A i \in DOMAIN run.authors :
            TimesIn(run.results, run.authors[i]) + TimesIn(run.skipped, run.authors[i]) = 1

\* C17: during a run the number of triggerJournal calls in flight is at
\* most CONCURRENCY and at most the number of eligible authors
C17_BoundedInFlight ==
    run.phase = "running" =>
        Cardinality(InFlight(run)) <= Min(cfg.concurrency, Len(run.toProcess))

\* two workers for three eligible authors, one of them on its second author
C17_Witness ==
    /\ run.phase = "running"
    /\ cfg.concurrency = 2
    /\ Len(run.toProcess) = 3
    /\ Len(run.results) = 1
    /\ Cardinality(InFlight(run)) = 2

\* C18: within a run no author is handed to triggerJournal twice: an author
\* is in flight with one worker or in one result, never both, and an author
\* still queued has not been handed out
C18_NoGroupTwice ==
    run.phase \in {"running", "done"} =>
        \A a \in GroupSet :
            /\ TimesIn(run.results, a) + TimesInFlight(a) <= 1
            /\ InSeq(a, run.queue) => TimesIn(run.results, a) + TimesInFlight(a) = 0

\* three authors went through two workers
C18_Witness ==
    /\ BatchDone
    /\ cfg.concurrency = 2
    /\ Len(run.results) = 3
    /\ \A a \in GroupSet : TimesIn(run.results, a) = 1

\* C19: when the triggerJournal of an author throws in a batch run, the
\* author gets a result with status 500, and the run still ends with
\* success and with exactly one result for every eligible author
C19_FailureIsolated ==
    (BatchDone /\ \E k \in DOMAIN run.results : run.results[k].threw) =>
        /\ run.status = 200
        /\ \A k \in DOMAIN run.results : run.results[k].threw => run.results[k].status = 500
        /\ \A i \in DOMAIN run.toProcess : TimesIn(run.results, run.toProcess[i]) = 1

\* the only worker failed on its first author and went on with the others
C19_Witness ==
    /\ BatchDone
    /\ cfg.concurrency = 1
    /\ Len(run.results) = 3
    /\ run.results[1].threw
    /\ run.results[2].status = 200
    /\ ~run.results[3].threw

\* C20 as stated: rebuild-journal answers a failure only when discovery
\* failed, in batch mode and with author_id given
C20_FailsOnlyOnDiscovery ==
    (run.phase = "done" /\ run.status # 200) => run.env.discErr

\* the run serves a request that names one author
SingleRun == run.phase # "idle" /\ run.body.author_id # Missing

\* the author's journal was written less than the cooldown ago
InCooldown(a) ==
    /\ profiles[a].diario_updated_at # NoTime
    /\ now - profiles[a].diario_updated_at <= HoursToMs(cfg.cooldown)

\* C21: a rebuild-journal request that carries an author_id calls
\* triggerJournal exactly once, for that author and for no other, and makes
\* neither the discovery query nor the read of the update times, whatever
\* the author's stored update time and whatever force is.
C21_SingleMode ==
    SingleRun =>
        /\ run.triggered = <<run.body.author_id>>
        /\ run.reads = {}
        /\ run.authors = <<>>
        /\ run.skipped = <<>>
        /\ \A w \in Slots : run.cur[w] \in {Missing, run.body.author_id}
        /\ \A i \in DOMAIN run.results : run.results[i].author_id = run.body.author_id
        /\ Len(run.results) <= 1

\* triggerJournal is in flight for an author still inside the cooldown, in
\* a request without force
C21_Witness ==
    /\ run.phase = "single"
    /\ run.body = RebuildBody("a1", FALSE)
    /\ run.cur[1] = "a1"
    /\ run.triggered = <<"a1">>
    /\ cfg.cooldown > 0
    /\ InCooldown("a1")

\* C22: over any sequence of forza-analisi calls, a stored poem keeps the
\* author it was created with, whatever the fields of a later request with
\* its poem_id, and so no author's count of poems ever decreases.
C22_AuthorNeverChanges ==
    [][/\ \A r \in poems : \A q \in poems' : q.id = r.id => q.author = r.author
       /\ \A a \in Authors : CountRows(poems', a) >= CountRows(poems, a)]_vars

\* C23: each of the three analyses of one forza-analisi call makes at most
\* two chat completion calls; it makes the second only when the first was
\* rejected or was still pending after 45 seconds, with no delay before it,
\* and it makes no third call even when the second failed too.
C23_AtMostOneRetry ==
    ItemDone =>
        \A t \in Tasks :
            LET a == last.item.asked[t]
            IN  /\ a.n <= 2
                /\ Len(a.calls) = a.n
                /\ a.waited = 0
                /\ a.n = 2 => a.calls[1] \in {"fail", "slow"}
                /\ a.n = 1 => a.calls[1] \notin {"fail", "slow"}

\* a task whose two calls failed, the first by the timeout, although a third
\* call would have succeeded
C23_Witness ==
    /\ ItemDone
    /\ last.item.asked[1].calls = <<"slow", "slow">>
    /\ last.item.asked[1].n = 2
    /\ last.item.asked[1].fails = 2
    /\ last.item.asked[2].n = 1

\* C24: over a series of forza-analisi calls for one author, one after the
\* other, requests with an already stored poem_id included, each multiple
\* of the threshold that the author's count reaches is the count of at most
\* one dispatch of the cascade.
C24_OneDispatchPerMultiple ==
    \A i, j \in DOMAIN calls :
        (/\ i < j
         /\ calls[i].tr.dispatched
         /\ calls[j].tr.dispatched
         /\ calls[i].tr.body.author_id = calls[j].tr.body.author_id)
            => calls[i].tr.count # calls[j].tr.count

\* invocations i and j of forza-analisi inserted different new poems of one
\* author and both have read their count
RacedInserts(i, j) ==
    /\ i # j
    /\ calls[i].pc \in {"counted", "done"}
    /\ calls[j].pc \in {"counted", "done"}
    /\ calls[i].tr.upsert = "inserted"
    /\ calls[j].tr.upsert = "inserted"
    /\ calls[i].tr.body.poem_id # calls[j].tr.body.poem_id
    /\ calls[i].tr.body.author_id = calls[j].tr.body.author_id

\* C25: when two forza-analisi invocations that run together and inserted
\* different new poems of one author read the same count, and that count is
\* a multiple of the threshold and at least the threshold, both of them
\* dispatch aggiorna-journal for that author; the state where both read the
\* count after both upserts is reachable.
C25_DoubleTrigger ==
    \A i, j \in DOMAIN calls :
        (/\ RacedInserts(i, j)
         /\ calls[i].tr.count = calls[j].tr.count
         /\ AtMultiple(calls[i].tr.count, cfg.threshold))
            => calls[i].tr.dispatched /\ calls[j].tr.dispatched

\* both invocations answered after a cascade made for the same count
C25_Witness ==
    /\ Len(calls) = 2
    /\ RacedInserts(1, 2)
    /\ calls[1].pc = "done" /\ calls[2].pc = "done"
    /\ calls[1].tr.count = calls[2].tr.count
    /\ calls[1].tr.count = CountRows(poems, "a1")
    /\ AtMultiple(calls[1].tr.count, cfg.threshold)
    /\ calls[1].tr.triggered /\ calls[2].tr.triggered
    /\ Len(history) = 2

\* C26: the count a forza-analisi invocation reads is the number of the
\* author's poems stored when it reads, the poems upserted meanwhile by
\* other invocations included, and it dispatches only when that number is
\* a multiple of the threshold; so when two invocations upsert different
\* new poems before either reads, both read the count past the multiple and
\* neither dispatches (threshold 3: from 2 to 4).
C26_SkippedMultiple ==
    [][\A i \in DOMAIN calls :
          (calls[i].pc = "analysed" /\ calls'[i].pc = "counted") =>
              /\ calls'[i].tr.count = CountRows(poems, calls[i].tr.body.author_id)
              /\ calls'[i].tr.dispatched => AtMultiple(calls'[i].tr.count, cfg.threshold)]_vars

\* threshold 3, two poems stored before: both invocations read 4 and answer
\* without a dispatch, and nothing was written for the author
C26_Witness ==
    /\ cfg.threshold = 3
    /\ Len(calls) = 2
    /\ RacedInserts(1, 2)
    /\ calls[1].pc = "done" /\ calls[2].pc = "done"
    /\ CountRows(poems, "a1") = 4
    /\ calls[1].tr.count = 4 /\ calls[2].tr.count = 4
    /\ ~calls[1].tr.dispatched /\ ~calls[2].tr.dispatched
    /\ calls[1].tr.status = 200 /\ calls[2].tr.status = 200
    /\ profiles["a1"] = EmptyProfile
    /\ history = <<>>

\* C27: when invocations of aggiorna-journal for one author run together,
\* the update of each one succeeds without any test of what is stored: the
\* invocation answers 200 and poetic_journal becomes its journal, also when
\* another invocation wrote after this one read the previous journal.
C27_LastWriteWins ==
    [][\A i \in DOMAIN syns :
          (/\ syns[i].pc = "read"
           /\ syns'[i].pc = "done"
           /\ ~syns'[i].tr.env.updErr) =>
              /\ syns'[i].tr.status = 200
              /\ syns'[i].tr.wrote
              /\ profiles'[syns[i].body.author_id].poetic_journal = syns'[i].tr.journal]_vars

\* two invocations read the empty journal, the first wrote a synthesised
\* journal, the second wrote the fallback after it: the fallback is stored
\* and the first journal is left only in the history
C27_Witness ==
    /\ Len(syns) = 2
    /\ syns[1].pc = "done" /\ syns[2].pc = "done"
    /\ syns[1].tr.status = 200 /\ syns[2].tr.status = 200
    /\ syns[1].prev = NullJournal /\ syns[2].prev = NullJournal
    /\ Len(history) = 2
    /\ history[1].contenuto = syns[1].tr.journal
    /\ history[2].contenuto = syns[2].tr.journal
    /\ syns[1].tr.journal # syns[2].tr.journal
    /\ profiles["a1"].poetic_journal = syns[2].tr.journal

\* C28: when aggiorna-journal persisted an author's journal with its update
\* time, a batch run of rebuild-journal without force that starts before
\* the cooldown window has elapsed since that time lists the author in
\* skipped with reason "cooldown" and does not process it: the time the
\* synthesis writes is the time the filter reads.
C28_CooldownBetweenRuns ==
    [][BatchStarts =>
          \A i \in DOMAIN run'.authors :
             LET a  == run'.authors[i]
                 ts == UpdatedAtOf(profiles[a], cfg.journalFn)
             IN  (/\ ~run'.body.force
                  /\ Truthy(JournalOf(profiles[a], cfg.journalFn))
                  /\ ts # NoTime
                  /\ now - ts < HoursToMs(cfg.cooldown))
                    => /\ \E k \in DOMAIN run'.skipped :
                             /\ run'.skipped[k].author_id = a
                             /\ run'.skipped[k].reason = "cooldown"
                       /\ ~InSeq(a, run'.toProcess)]_vars

\* C29: forza-analisi answers without waiting for the aggiorna-journal it
\* dispatched: the response of an invocation that dispatched is the success
\* decided before the fetch, it is made while the fetch has not been
\* awaited, and nothing in it comes from the answer of aggiorna-journal.
C29_FireAndForget ==
    (ItemDone /\ last.item.dispatched) =>
        /\ ItemResponse(last.item, last.journal).statusCode = 200
        /\ ItemResponse(last.item, last.journal).journal = NoAnswer
        /\ last.item.fetch = "none"

\* C30: when the upsert of the poem returns an error, forza-analisi answers
\* with a 5xx status and does nothing else: no chat completion is asked, no
\* analysis is written, no count is read, no cascade is dispatched, and the
\* store is as it was.
C30_UpsertFailureFatal ==
    [][(last'.op = "item" /\ last'.item.upsertErr) =>
          /\ last'.item.status >= 500
          /\ last'.item.status <= 599
          /\ last'.item.upsert = "none"
          /\ \A t \in Tasks : last'.item.asked[t].n = 0
          /\ ~last'.item.written
          /\ last'.item.count = 0 - 1
          /\ ~last'.item.dispatched
          /\ last'.item.fetch = "none"
          /\ last'.journal = NoJTrace
          /\ UNCHANGED <<poems, profiles, history>>]_vars

\* the upsert fails for a stored poem whose author is at the threshold, so
\* that going on would have dispatched the cascade
C30_Witness ==
    /\ ItemDone
    /\ last.item.upsertErr
    /\ last.item.status = 500
    /\ cfg.threshold = 1
    /\ \E r \in poems : r.id = last.item.body.poem_id /\ r.author = last.item.body.author_id

\* C31: when the select of the author's profile fails in a synthesis that
\* is not a dry run and is at or above the threshold, aggiorna-journal
\* answers with a failure, asks no completion and writes neither the
\* profile nor the history; it never goes on with an empty previous journal
\* because the read failed.
C31_ProfileReadFailureFatal ==
    [][(/\ last'.op = "journal"
        /\ last'.journal.env.profRead = "err"
        /\ ~last'.journal.body.dry_run
        /\ last'.journal.count >= cfg.threshold
        /\ last'.journal.count > 0) =>
          /\ last'.journal.status >= 500
          /\ last'.journal.provCalls = 0
          /\ ~last'.journal.wrote
          /\ ~last'.journal.hist
          /\ UNCHANGED <<profiles, history>>]_vars

\* the place of poem p in the corpus, 0 when it is not there
PlaceIn(corpus, p) ==
    IF \E i \in DOMAIN corpus : corpus[i] = p
    THEN CHOOSE i \in DOMAIN corpus : corpus[i] = p
    ELSE 0

\* C32: the corpus aggiorna-journal hands to OpenAI holds every poem of
\* the author, and of any two poems of the author the one created earlier
\* stands earlier in it, whatever their ids are.
C32_CorpusInCreationOrder ==
    (JournalDone /\ last.journal.provCalls > 0) =>
        LET corpus == last.journal.corpus
            rows   == {r \in poems : r.author = last.journal.body.author_id}
        IN  /\ \A r \in rows : PlaceIn(corpus, r.id) > 0
            /\ \A r, q \in rows :
                  r.created_at < q.created_at => PlaceIn(corpus, r.id) < PlaceIn(corpus, q.id)

\* C35: maybeTriggerJournal of forza-analisi/index.ts fetches
\* aggiorna-journal only when the author's count is a positive multiple of
\* the threshold: with threshold 3 at 3 and 6, not at 4 and 5.
C35_IndexDispatchOnlyAtMultiples ==
    (last.op = "index" /\ last.item.dispatched) =>
        /\ last.item.count > 0
        /\ last.item.count % cfg.threshold = 0

\* C33: an aggiorna-journal request without dry_run at or above the
\* threshold that synthesizes calls OpenAI exactly once, and the previous
\* journal it passes is the journal stored for the author when it ran: the
\* one the most recent completed synthesis persisted, absent before the
\* first.
C33_OneCallWithStoredPrevious ==
    [][(/\ last'.op = "journal"
        /\ ~last'.journal.body.dry_run
        /\ last'.journal.status = 200
        /\ last'.journal.count >= cfg.threshold
        /\ last'.journal.count > 0) =>
          LET stored == JournalOf(profiles[last'.journal.body.author_id], cfg.journalFn)
          IN  /\ last'.journal.provCalls = 1
              /\ Truthy(stored) => last'.journal.prev = stored
              /\ ~Truthy(stored) => ~Truthy(last'.journal.prev)]_vars

\* the sum of the ms of the results that carry one
RECURSIVE SumOfMs(_)
SumOfMs(results) ==
    IF results = <<>>
    THEN 0
    ELSE LET r == Head(results)
         IN  (IF r.threw THEN 0 ELSE r.ms) + SumOfMs(Tail(results))

\* C34: a batch run that went through its workers answers processed = the
\* number of results = the number of eligible authors, okCount = the number
\* of results with status 200, and as average the sum of the results' ms
\* (0 for a result pushed by the catch) divided by processed and rounded,
\* 0 when processed is 0.
C34_RunTotals ==
    (BatchDone /\ run.status = 200 /\ run.toProcess # <<>>) =>
        /\ run.processed = Len(run.results)
        /\ Len(run.results) = Len(run.toProcess)
        /\ run.okCount = Cardinality({k \in DOMAIN run.results : run.results[k].status = 200})
        /\ run.processed = 0 => run.avg_ms_per_author = 0
        /\ run.processed > 0 =>
              /\ 2 * run.avg_ms_per_author * run.processed <= 2 * SumOfMs(run.results) + run.processed
              /\ 2 * SumOfMs(run.results) + run.processed < 2 * (run.avg_ms_per_author + 1) * run.processed

\* the invocations of the chain that arrived at fn
HopsAt(at) == {i \in DOMAIN calls : calls[i].tr.at = at}

\* C36: the chain of requests a forza-analisi request starts is finite:
\* the item analysis fetches aggiorna-journal at most once, aggiorna-journal
\* runs at most once in the chain, and the forza-analisi that a forwarding
\* aggiorna-journal fetches answers without an upsert and without a
\* further fetch, so the chain is at most three invocations deep.
C36_ChainIsFinite ==
    /\ Len(calls) <= 3
    /\ Cardinality(HopsAt("aggiorna-journal")) <= 1
    /\ \A i \in DOMAIN calls :
          /\ calls[i].tr.fetches <= 1
          /\ (i > 1 /\ calls[i].tr.at = "forza-analisi") =>
                /\ calls[i].tr.upsert = "none"
                /\ calls[i].tr.fetches = 0
                /\ calls[i].pc = "returned" => calls[i].tr.status = 400

\* a forwarding aggiorna-journal fetched forza-analisi, which answered 400
C36_Witness ==
    /\ Len(calls) = 3
    /\ calls[1].tr.upsert = "inserted"
    /\ calls[2].tr.at = "aggiorna-journal"
    /\ calls[3].tr.at = "forza-analisi"
    /\ calls[3].pc = "returned"
    /\ calls[3].tr.status = 400

\* the workers of a batch run are running
BatchRunning == run.phase = "running" /\ run.body.author_id = Missing

\* C37: with CONCURRENCY >= 1, if every triggerJournal returns or throws, a
\* batch run whose workers started is eventually answered, with the queue
\* empty and exactly one result for each eligible author.
C37_BatchEventuallyReturns ==
    (BatchRunning /\ cfg.concurrency >= 1) ~>
        (/\ BatchDone
         /\ run.status = 200
         /\ run.queue = <<>>
         /\ Len(run.results) = Len(run.toProcess)
         /\ \A i \in DOMAIN run.toProcess : TimesIn(run.results, run.toProcess[i]) = 1)

\* one worker took the three authors one after the other, a triggerJournal
\* threw, and the run was answered
C37_Witness ==
    /\ BatchDone
    /\ cfg.concurrency = 1
    /\ Len(run.toProcess) = 3
    /\ Len(run.results) = 3
    /\ run.queue = <<>>
    /\ \E k \in DOMAIN run.results : run.results[k].threw

\* C38: when countPoemsByAuthor fails after the poem and its analyses were
\* stored, forza-analisi fetches no aggiorna-journal, touches neither
\* profiles nor the history, and still answers 200 with journal_triggered
\* false and no journal.
C38_CountFailureLogged ==
    [][(last'.op = "item" /\ last'.item.written /\ last'.item.countErr) =>
          /\ last'.item.status = 200
          /\ ~last'.item.dispatched
          /\ last'.item.fetch = "none"
          /\ last'.journal = NoJTrace
          /\ ~ItemResponse(last'.item, last'.journal).journal_triggered
          /\ ItemResponse(last'.item, last'.journal).journal = NoAnswer
          /\ \E r \in poems' : /\ r.id = last'.item.body.poem_id
                                /\ \A t \in Tasks : r.an[t] # Null
          /\ UNCHANGED <<profiles, history>>]_vars

\* the count failed on the request that stored the author's poem number
\* threshold, where a count that succeeds dispatches
C38_Witness ==
    /\ last.op = "item"
    /\ last.item.written
    /\ last.item.countErr
    /\ last.item.upsert = "inserted"
    /\ CountRows(poems, last.item.body.author_id) = cfg.threshold

\* C39: when the select of the timestamps fails, or returns no row for an
\* author, a batch run without force takes that author as never updated:
\* every such discovered author is eligible and none of them is skipped,
\* whatever timestamp its profile holds.
C39_LookupFailsOpen ==
    [][(BatchStarts /\ ~run'.body.force) =>
          \A i \in DOMAIN run'.authors :
             LET a == run'.authors[i]
             IN  (run'.env.mapErr \/ a \in run'.env.noRow) =>
                    /\ InSeq(a, run'.toProcess)
                    /\ TimesIn(run'.skipped, a) = 0]_vars

\* the select failed in a run without force while a1 was updated within the
\* cooldown window, and a1 is processed again
C39_Witness ==
    /\ run.phase = "running"
    /\ ~run.body.force
    /\ run.env.mapErr
    /\ profiles["a1"].diario_updated_at # NoTime
    /\ now - profiles["a1"].diario_updated_at <= HoursToMs(cfg.cooldown)
    /\ InSeq("a1", run.toProcess)
    /\ run.skipped = <<>>

====
